---------------------------- MODULE Spec2Model ----------------------------
(***************************************************************************)
(* Model of the deterministic natural-language chart engine of AI_Tool:    *)
(*   backend/services/nlp_routes.py        the /api/nlp/chart handler      *)
(*   backend/services/aichat_nlp.py        the engine the handler imports  *)
(*   backend/services/nlp_engine/*.py      the refactored engine           *)
(* Text is modelled as TLA+ strings handled character by character, JSON   *)
(* values as tagged records, Python floats as exact hundredths or exact    *)
(* fractions <<numerator, denominator>>.                                   *)
(***************************************************************************)
EXTENDS Integers, Sequences, FiniteSets, TLC

VARIABLES
    engine,     \* which implementation runs: "aichat" or "nlp_engine"
    query,      \* the free-text query of the current request
    payload,    \* the dataset payload of the current request (JSON value)
    today,      \* the system clock read by dateutil's parser (a date record)
    pc,         \* position of the current request in its pipeline
    dataset,    \* result of extract_dataset
    columns,    \* result of analyse_columns
    fields,     \* value / category / time / secondary_value being resolved
    interp,     \* the interpretation returned by interpret_nl_query
    built,      \* outcome of build_chart_response
    response,   \* HTTP response of the handler
    run,        \* 1 for the first run of a request, 2 for its repetition
    firstOut,   \* outcome of the first run, kept for comparison
    uploaded_df,    \* global_state.uploaded_df: the frame of the last upload
    cleaned_data    \* global_state.cleaned_data: the frame of the last cleaning

vars == <<engine, query, payload, today, pc, dataset, columns, fields,
          interp, built, response, run, firstOut, uploaded_df, cleaned_data>>

(***************************************************************************)
(* Python text primitives.                                                 *)
(***************************************************************************)
NoneVal == [k |-> "none"]

Ch(s, i) == SubSeq(s, i, i)

DigitChars == {"0", "1", "2", "3", "4", "5", "6", "7", "8", "9"}

LowerChars == {"a", "b", "c", "d", "e", "f", "g", "h", "i", "j", "k", "l", "m",
               "n", "o", "p", "q", "r", "s", "t", "u", "v", "w", "x", "y", "z"}

UpperChars == {"A", "B", "C", "D", "E", "F", "G", "H", "I", "J", "K", "L", "M",
               "N", "O", "P", "Q", "R", "S", "T", "U", "V", "W", "X", "Y", "Z"}

UpperAlphabet == "ABCDEFGHIJKLMNOPQRSTUVWXYZ"

LowerAlphabet == "abcdefghijklmnopqrstuvwxyz"

SpaceChars == {" ", "\n", "\t"}

\* regex \w
WordChars == LowerChars \cup UpperChars \cup DigitChars \cup {"_"}

StartsAt(hay, needle, i) ==
    /\ i >= 1
    /\ i + Len(needle) - 1 <= Len(hay)
    /\ SubSeq(hay, i, i + Len(needle) - 1) = needle

\* F applied to the value of x: a call evaluates its argument first
Then(x, F(_)) == CHOOSE r \in {F(v) : v \in {x}} : TRUE

SetMax(S) == CHOOSE x \in S : \A y \in S : y <= x

SetMin(S) == CHOOSE x \in S : \A y \in S : x <= y

\* the least position of a set of positions, 0 for no position
FirstOf(hits) == IF hits = {} THEN 0 ELSE SetMin(hits)

\* str.find(needle) + 1, 0 when absent
find(hay, needle) ==
    FirstOf({i \in 1..(Len(hay) - Len(needle) + 1) : StartsAt(hay, needle, i)})

\* needle in hay
Contains(hay, needle) == find(hay, needle) # 0

\* any(keyword in text for keyword in keywords)
ContainsAny(hay, needles) == \E n \in needles : Contains(hay, n)

\* the pieces lo..hi of a sequence of strings, concatenated
RECURSIVE Concat(_, _, _)
Concat(pieces, lo, hi) ==
    IF lo > hi THEN ""
    ELSE IF lo = hi THEN pieces[lo]
    ELSE Concat(pieces, lo, (lo + hi) \div 2) \o Concat(pieces, (lo + hi) \div 2 + 1, hi)

LowerCh(c) ==
    IF c \in UpperChars THEN Ch(LowerAlphabet, find(UpperAlphabet, c)) ELSE c

\* str.lower()
lower(s) == Concat([i \in 1..Len(s) |-> LowerCh(Ch(s, i))], 1, Len(s))

\* str.strip(chars) for a set of characters
strip_chars(s, cs) ==
    LET kept == {i \in 1..Len(s) : Ch(s, i) \notin cs}
    IN IF kept = {} THEN "" ELSE SubSeq(s, SetMin(kept), SetMax(kept))

\* str.strip()
strip(s) == strip_chars(s, SpaceChars)

\* the end of the run of characters with P that starts at j
ScanWhile(s, j, P(_)) ==
    IF j > Len(s) THEN j
    ELSE SetMin({k \in j..(Len(s) + 1) : k > Len(s) \/ ~P(Ch(s, k))})

\* the n-th least element of a set of numbers
Nth(S, n) == CHOOSE x \in S : Cardinality({y \in S : y <= x}) = n

\* str.split(): split on runs of whitespace, no empty parts
split(s) ==
    LET starts == {i \in 1..Len(s) : /\ Ch(s, i) \notin SpaceChars
                                      /\ (i = 1 \/ Ch(s, i - 1) \in SpaceChars)}
        ends == {i \in 1..Len(s) : /\ Ch(s, i) \notin SpaceChars
                                    /\ (i = Len(s) \/ Ch(s, i + 1) \in SpaceChars)}
    IN [n \in 1..Cardinality(starts) |-> SubSeq(s, Nth(starts, n), Nth(ends, n))]

\* " ".join(parts)
RECURSIVE join(_)
join(parts) ==
    IF parts = <<>> THEN ""
    ELSE IF Len(parts) = 1 THEN parts[1]
    ELSE parts[1] \o " " \o join(Tail(parts))

\* re.sub(r"[^a-z0-9]+", " ", text): each run of other characters -> one space
sub_non_alnum(s) ==
    LET alnum(i) == Ch(s, i) \in (LowerChars \cup DigitChars)
    IN Concat([i \in 1..Len(s) |->
                 IF alnum(i) THEN Ch(s, i)
                 ELSE IF i > 1 /\ ~alnum(i - 1) THEN "" ELSE " "],
              1, Len(s))

\* _normalize(text)
_normalize(text) == Then(Then(lower(text), sub_non_alnum), strip)

SeqToSet(sq) == {sq[i] : i \in 1..Len(sq)}

(***************************************************************************)
(* Exact fractions <<n, d>> with d > 0 stand for Python floats.            *)
(***************************************************************************)
RECURSIVE GCD(_, _)
GCD(a, b) == IF b = 0 THEN a ELSE GCD(b, a % b)

Abs(n) == IF n < 0 THEN -n ELSE n

Rat(n, d) == LET g == GCD(Abs(n), d) IN IF n = 0 THEN <<0, 1>> ELSE <<n \div g, d \div g>>

RatInt(n) == <<n, 1>>

RatAdd(a, b) == Rat(a[1] * b[2] + b[1] * a[2], a[2] * b[2])

RatLT(a, b) == a[1] * b[2] < b[1] * a[2]

RatLE(a, b) == a[1] * b[2] <= b[1] * a[2]

RatMin(a, b) == IF RatLE(a, b) THEN a ELSE b

(***************************************************************************)
(* Python's ordering of strings (by code point), used where the code sorts *)
(* (score, name) tuples.                                                   *)
(***************************************************************************)
CodeOrder == "\t\n !\"$'(),-./0123456789:;<=>ABCDEFGHIJKLMNOPQRSTUVWXYZ_abcdefghijklmnopqrstuvwxyz"

Ord(c) == find(CodeOrder, c)

RECURSIVE StrLT(_, _)
StrLT(a, b) ==
    IF b = "" THEN FALSE
    ELSE IF a = "" THEN TRUE
    ELSE IF Head(a) = Head(b) THEN StrLT(Tail(a), Tail(b))
    ELSE Ord(Head(a)) < Ord(Head(b))

(***************************************************************************)
(* difflib.SequenceMatcher(None, a, b).ratio()                             *)
(***************************************************************************)
\* the length of the longest common run that starts at a[i] and b[j]
CommonLen(a, i, b, j) ==
    SetMax({k \in 0..(Len(a) - i + 1) :
              /\ j + k - 1 <= Len(b)
              /\ SubSeq(a, i, i + k - 1) = SubSeq(b, j, j + k - 1)})

\* find_longest_match: the longest block, earliest in a, then earliest in b
find_longest_match(a, b) ==
    LET size == SetMax({CommonLen(a, i, b, j) : i \in 1..Len(a), j \in 1..Len(b)})
        i0 == SetMin({i \in 1..Len(a) : \E j \in 1..Len(b) : CommonLen(a, i, b, j) = size})
    IN <<i0, SetMin({j \in 1..Len(b) : CommonLen(a, i0, b, j) = size}), size>>

\* total size of get_matching_blocks()
RECURSIVE matching_size(_, _)
matching_size(a, b) ==
    LET around(m) ==
            IF m[3] = 0 THEN 0
            ELSE m[3]
                 + matching_size(SubSeq(a, 1, m[1] - 1), SubSeq(b, 1, m[2] - 1))
                 + matching_size(SubSeq(a, m[1] + m[3], Len(a)),
                                 SubSeq(b, m[2] + m[3], Len(b)))
    IN IF a = "" \/ b = "" THEN 0 ELSE around(find_longest_match(a, b))

\* ratio() = 2.0 * matches / (len(a) + len(b)), 1.0 for two empty strings
ratio(a, b) ==
    IF Len(a) + Len(b) = 0 THEN RatInt(1)
    ELSE Rat(2 * matching_size(a, b), Len(a) + Len(b))

SimilarityThreshold == Rat(8, 10)

(***************************************************************************)
(* _parse_directives: finditer of                                          *)
(*   (chart|value|dimension|filter|time|group)\s*[:=]\s*([^;\n]+)          *)
(* with IGNORECASE.  The result maps each keyword to the list of its       *)
(* stripped values in order of appearance (<<>> when the key is absent).   *)
(***************************************************************************)
DirectiveKeywords == {"chart", "value", "dimension", "filter", "time", "group"}

SkipWs(q, j) == ScanWhile(q, j, LAMBDA c : c \in SpaceChars)

RunEnd(q, j) == ScanWhile(q, j, LAMBDA c : c \notin {";", "\n"})

\* a match starting at i: <<keyword, value, end>> or NoneVal
DirectiveMatchAt(q, lq, i) ==
    LET value_run(kw, st, en) ==
            [k |-> "match", key |-> kw, val |-> strip(SubSeq(q, st, en - 1)), end |-> en]
        \* \s* is greedy and gives characters back to [^;\n]+
        value_from(kw, starts) ==
            IF starts = {} THEN NoneVal
            ELSE value_run(kw, SetMax(starts), RunEnd(q, SetMax(starts)))
        separator(kw, j2) ==
            IF j2 > Len(q) \/ Ch(q, j2) \notin {":", "="} THEN NoneVal
            ELSE value_from(kw, {k \in (j2 + 1)..SkipWs(q, j2 + 1) :
                                   k <= Len(q) /\ Ch(q, k) \notin {";", "\n"}})
        keyword(kws) ==
            IF kws = {} THEN NoneVal
            ELSE separator(CHOOSE k \in kws : TRUE,
                           SkipWs(q, i + Len(CHOOSE k \in kws : TRUE)))
    IN keyword({k \in DirectiveKeywords : StartsAt(lq, k, i)})

\* the start of the first match at or after i, 0 when there is none
NextDirective(q, lq, i) ==
    FirstOf({j \in i..Len(q) : DirectiveMatchAt(q, lq, j) # NoneVal})

RECURSIVE DirectiveScan(_, _, _, _)
DirectiveScan(q, lq, i, acc) ==
    LET step(m) ==
            DirectiveScan(q, lq, m.end, [acc EXCEPT ![m.key] = Append(@, m.val)])
    IN IF NextDirective(q, lq, i) = 0 THEN acc
       ELSE step(DirectiveMatchAt(q, lq, NextDirective(q, lq, i)))

_parse_directives(q) ==
    Then(lower(q),
         LAMBDA lq : DirectiveScan(q, lq, 1, [k \in DirectiveKeywords |-> <<>>]))

(***************************************************************************)
(* Column scoring.  A column descriptor is a record                        *)
(*   [name, type, uniqueCount, nonNullCount, numericRatio, temporalScore]. *)
(***************************************************************************)
\* re.findall(r"\"([^\"]+)\"|'([^']+)'", query): the quoted phrases, in order
QuoteEnd(q, j, quote) == FirstOf({k \in j..Len(q) : Ch(q, k) = quote})

RECURSIVE quoted_spans(_, _, _)
quoted_spans(q, i, acc) ==
    LET open == FirstOf({j \in i..Len(q) : Ch(q, j) \in {"\"", "'"}})
        e == QuoteEnd(q, open + 1, Ch(q, open))
    IN IF open = 0 THEN acc
       ELSE IF e > open + 1
       THEN quoted_spans(q, e + 1, Append(acc, SubSeq(q, open + 1, e - 1)))
       ELSE quoted_spans(q, open + 1, acc)

\* re.search(rf"(?i)(?<!\w){re.escape(name)}(?!\w)", query): position or 0
verbatim_search(q, name) ==
    LET search(lq, ln) ==
            FirstOf({i \in 1..Len(q) :
                       /\ StartsAt(lq, ln, i)
                       /\ (i = 1 \/ Ch(q, i - 1) \notin WordChars)
                       /\ (i + Len(name) > Len(q) \/ Ch(q, i + Len(name)) \notin WordChars)})
    IN search(lower(q), lower(name))

\* idx of f" {normalized_name} " in f" {normalized_query} ", 0 when absent
phrase_search(normalized_query, normalized_name) ==
    find(" " \o normalized_query \o " ", " " \o normalized_name \o " ")

CountIn(sq, P(_)) == Cardinality({i \in 1..Len(sq) : P(sq[i])})

\* the sum of the fractions terms[lo..hi]
RECURSIVE RatSum(_, _, _)
RatSum(terms, lo, hi) ==
    IF lo > hi THEN RatInt(0)
    ELSE IF lo = hi THEN terms[lo]
    ELSE RatAdd(RatSum(terms, lo, (lo + hi) \div 2),
                RatSum(terms, (lo + hi) \div 2 + 1, hi))

\* <<sum, count>> of the similarities that reach the threshold
fuzzy_total(similar, capped) ==
    <<RatSum([i \in 1..Len(similar) |->
                IF capped THEN RatMin(RatInt(1), similar[i]) ELSE similar[i]],
             1, Len(similar)),
      Len(similar)>>

fuzzy_sum(tokens, normalized_name, capped) ==
    fuzzy_total(SelectSeq([i \in 1..Len(tokens) |-> ratio(tokens[i], normalized_name)],
                          LAMBDA similarity : RatLE(SimilarityThreshold, similarity)),
                capped)

Repeat(tag, n) == [i \in 1..n |-> tag]

\* nlp_interpreter._score_columns, for one column: the tally of the reasons
score_total(tokens, normalized_name, points, fuzzy, reasons) ==
    LET isPartial == /\ reasons = <<>> /\ fuzzy[2] = 0 /\ normalized_name # ""
                     /\ \E i \in 1..Len(tokens) : Contains(normalized_name, tokens[i])
    IN [score |-> RatAdd(RatAdd(RatInt(points), fuzzy[1]),
                         IF isPartial THEN Rat(1, 4) ELSE RatInt(0)),
        reasons |-> reasons \o Repeat("fuzzy", fuzzy[2])
                    \o (IF isPartial THEN <<"partial">> ELSE <<>>)]

score_reasons(tokens, normalized_name, isQuoted, isPhrase, isName, isVerbatim, direct) ==
    Then(IF direct = 0 THEN fuzzy_sum(tokens, normalized_name, TRUE) ELSE <<RatInt(0), 0>>,
         LAMBDA fuzzy :
            score_total(tokens, normalized_name,
                (IF isQuoted THEN 50 ELSE 0) + (IF isPhrase THEN 15 ELSE 0)
                + (IF isName THEN 12 ELSE 0) + (IF isVerbatim THEN 10 ELSE 0) + 4 * direct,
                fuzzy,
                (IF isQuoted THEN <<"quoted">> ELSE <<>>)
                \o (IF isPhrase THEN <<"phrase">> ELSE <<>>)
                \o (IF isName THEN <<"name">> ELSE <<>>)
                \o (IF isVerbatim THEN <<"verbatim">> ELSE <<>>)
                \o Repeat("token", direct)))

score_normalized(q, name, normalized_query, normalized_name) ==
    LET tokens == split(normalized_query)
        col_tokens == SeqToSet(split(normalized_name))
    IN score_reasons(tokens, normalized_name,
           normalized_name \in
               ({_normalize(ph) : ph \in SeqToSet(quoted_spans(q, 1, <<>>))} \ {""}),
           /\ normalized_name # "" /\ normalized_query # ""
           /\ phrase_search(normalized_query, normalized_name) # 0,
           normalized_name # "" /\ \E i \in 1..Len(tokens) : tokens[i] = normalized_name,
           verbatim_search(q, name) # 0,
           CountIn(tokens, LAMBDA t : t \in col_tokens))

score_column(q, name) ==
    Then(_normalize(q),
         LAMBDA normalized_query :
            Then(_normalize(name),
                 LAMBDA normalized_name :
                    score_normalized(q, name, normalized_query, normalized_name)))

\* aichat_nlp._score_columns, for one column (the query has no quoted phrase:
\* with one, _normalize is applied to a tuple and raises)
aichat_score_total(tokens, normalized_name, direct, exact, fuzzy) ==
    LET reasons == Repeat("token", direct) \o Repeat("name", exact)
                   \o Repeat("fuzzy", fuzzy[2])
        isPartial == /\ reasons = <<>> /\ normalized_name # ""
                     /\ \E i \in 1..Len(tokens) : Contains(normalized_name, tokens[i])
    IN [score |-> RatAdd(RatAdd(RatInt(3 * direct + 5 * exact), fuzzy[1]),
                         IF isPartial THEN Rat(1, 2) ELSE RatInt(0)),
        reasons |-> reasons \o (IF isPartial THEN <<"partial">> ELSE <<>>)]

aichat_score_tokens(tokens, normalized_name, direct) ==
    Then(IF direct = 0 THEN fuzzy_sum(tokens, normalized_name, FALSE) ELSE <<RatInt(0), 0>>,
         LAMBDA fuzzy :
            aichat_score_total(tokens, normalized_name, direct,
                               CountIn(tokens, LAMBDA t : t = normalized_name), fuzzy))

aichat_score_normalized(tokens, normalized_name) ==
    aichat_score_tokens(tokens, normalized_name,
                        CountIn(tokens, LAMBDA t : t \in SeqToSet(split(normalized_name))))

aichat_score_column(q, name) ==
    Then(split(_normalize(q)),
         LAMBDA tokens :
            Then(_normalize(name),
                 LAMBDA normalized_name : aichat_score_normalized(tokens, normalized_name)))

Names(cols) == [i \in 1..Len(cols) |-> cols[i].name]

\* match_details: column name -> [score, reasons]
_score_columns(q, cols) ==
    [n \in SeqToSet(Names(cols)) |-> score_column(q, n)]

aichat_score_columns(q, cols) ==
    [n \in SeqToSet(Names(cols)) |-> aichat_score_column(q, n)]

\* the aichat scorer raises AttributeError as soon as the query quotes anything
aichat_score_raises(q) == quoted_spans(q, 1, <<>>) # <<>>

(***************************************************************************)
(* Optional[str]: None is a reserved text; "if not x" is Falsy(x).         *)
(***************************************************************************)
None == "<None>"

Falsy(x) == x \in {None, ""}

Truthy(x) == ~Falsy(x)

\* x if x is not None else y
IfNone(x, y) == IF x # None THEN x ELSE y

\* x or y
OrElse(x, y) == IF Truthy(x) THEN x ELSE y

\* next((x for x in sq if x), None)
FirstTruthy(sq) ==
    LET pick(hits) == IF hits = {} THEN None ELSE sq[SetMin(hits)]
    IN pick({i \in 1..Len(sq) : Truthy(sq[i])})

\* the first column (dataset order) whose score is the strict maximum above 0
first_best(cols, Score(_)) ==
    LET scored == [i \in 1..Len(cols) |-> Score(cols[i].name)] \o <<>>
        positive == {i \in 1..Len(cols) : RatLT(RatInt(0), scored[i])}
    IN IF positive = {} THEN None
       ELSE cols[SetMin({i \in positive :
                           \A j \in positive : RatLE(scored[j], scored[i])})].name

\* nlp_interpreter._find_mentioned_columns
mention_position(q, name) ==
    LET phrase(nq, nn) == IF nn # "" /\ nq # "" THEN phrase_search(nq, nn) ELSE 0
        position(v) == IF v # 0 THEN v ELSE phrase(_normalize(q), _normalize(name))
    IN position(IF name # "" THEN verbatim_search(q, name) ELSE 0)

RECURSIVE order_mentions(_, _)
order_mentions(cols, pending) ==
    IF pending = {} THEN <<>>
    ELSE LET m == CHOOSE x \in pending : \A y \in pending :
                        x[1] < y[1] \/ (x[1] = y[1] /\ x[2] <= y[2])
         IN <<cols[m[2]].name>> \o order_mentions(cols, pending \ {m})

_find_mentioned_columns(q, cols) ==
    LET found(positions) ==
            order_mentions(cols, {<<positions[i], i>> :
                                    i \in {j \in 1..Len(cols) : positions[j] # 0}})
    IN found([i \in 1..Len(cols) |-> mention_position(q, cols[i].name)])

\* nlp_interpreter._resolve_column: exact > token overlap > fuzzy
token_overlap_ratio(normalized_label, name) ==
    LET share(normalized_name, overlap, longer) ==
            IF normalized_name = "" \/ overlap = 0 THEN RatInt(0) ELSE Rat(overlap, longer)
        compare(normalized_name, label_tokens, name_tokens) ==
            share(normalized_name,
                  CountIn(label_tokens, LAMBDA t : t \in SeqToSet(name_tokens)),
                  IF Len(label_tokens) >= Len(name_tokens)
                  THEN Len(label_tokens) ELSE Len(name_tokens))
        tokenised(normalized_name) ==
            compare(normalized_name, split(normalized_label), split(normalized_name))
    IN tokenised(_normalize(name))

ratio_to_name(normalized_label, normalized_name) ==
    IF normalized_name = "" THEN RatInt(0) ELSE ratio(normalized_label, normalized_name)

fuzzy_ratio(normalized_label, name) == ratio_to_name(normalized_label, _normalize(name))

resolve_exact(normalized_label, cols) ==
    LET pick(hits) == IF hits = {} THEN None ELSE cols[SetMin(hits)].name
    IN pick({i \in 1..Len(cols) : _normalize(cols[i].name) = normalized_label})

resolve_by_tokens(normalized_label, cols) ==
    IF split(normalized_label) = <<>> THEN None
    ELSE first_best(cols, LAMBDA n : token_overlap_ratio(normalized_label, n))

resolve_fuzzy(normalized_label, cols) ==
    first_best(cols, LAMBDA n : fuzzy_ratio(normalized_label, n))

\* the stages with the fuzzy ratio consulted before the token overlap
resolve_fuzzy_before_tokens(normalized_label, cols) ==
    IF normalized_label = "" THEN None
    ELSE IfNone(resolve_exact(normalized_label, cols),
                IfNone(resolve_fuzzy(normalized_label, cols),
                       resolve_by_tokens(normalized_label, cols)))

resolve_normalized(normalized_label, cols) ==
    IF normalized_label = "" THEN None
    ELSE IfNone(resolve_exact(normalized_label, cols),
                IfNone(resolve_by_tokens(normalized_label, cols),
                       resolve_fuzzy(normalized_label, cols)))

_resolve_column(label, cols) ==
    resolve_normalized(_normalize(strip_chars(label, {"'", "\""})), cols)

\* aichat_nlp._resolve_column: exact match returns at once, otherwise the best
\* of len(label) for a substring hit and the difflib ratio
length_or_ratio(normalized_label, normalized_name) ==
    IF Contains(normalized_name, normalized_label)
       \/ Contains(normalized_label, normalized_name)
    THEN RatInt(Len(normalized_label))
    ELSE ratio(normalized_label, normalized_name)

aichat_resolve_score(normalized_label, name) ==
    length_or_ratio(normalized_label, _normalize(name))

aichat_resolve_normalized(normalized_label, cols) ==
    IfNone(resolve_exact(normalized_label, cols),
           first_best(cols, LAMBDA n : aichat_resolve_score(normalized_label, n)))

aichat_resolve_column(label, cols) == aichat_resolve_normalized(_normalize(label), cols)

ResolveColumn(eng, label, cols) ==
    IF eng = "aichat" THEN aichat_resolve_column(label, cols)
    ELSE _resolve_column(label, cols)

\* _resolve_field_from_tokens
_resolve_field_from_tokens(eng, tokens, cols) ==
    IF tokens = <<>> THEN None
    ELSE ResolveColumn(eng, join([i \in 1..Len(tokens) |-> _normalize(tokens[i])]), cols)

\* _extract_dimension_from_query
GroupingPatterns == <<" by ", " per ", " grouped by ", " versus ", " vs ">>

FirstN(sq, n) == IF Len(sq) <= n THEN sq ELSE SubSeq(sq, 1, n)

\* the text that follows the first occurrence of the pattern
segment_after(lowered, pattern) ==
    LET at == find(lowered, pattern)
    IN IF at + Len(pattern) > Len(lowered) THEN ""
       ELSE SubSeq(lowered, at + Len(pattern), Len(lowered))

dimension_candidate(eng, lowered, pattern, cols) ==
    IF find(lowered, pattern) = 0 THEN None
    ELSE _resolve_field_from_tokens(eng, FirstN(split(segment_after(lowered, pattern)), 3),
                                    cols)

dimension_candidates(eng, lowered, cols) ==
    [i \in 1..Len(GroupingPatterns) |->
        dimension_candidate(eng, lowered, GroupingPatterns[i], cols)]

_extract_dimension_from_query(eng, q, cols) ==
    FirstTruthy(dimension_candidates(eng, lower(q), cols))

(***************************************************************************)
(* Chart-type decision.                                                    *)
(***************************************************************************)
\* chart_map of _detect_explicit_chart_type, in the dict's iteration order
ChartMap == <<
    <<"line", "Line">>, <<"line chart", "Line">>, <<"line graph", "Line">>,
    <<"bar", "Bar">>, <<"bar chart", "Bar">>, <<"bar graph", "Bar">>,
    <<"column", "Bar">>, <<"trend", "Line">>, <<"timeline", "Line">>,
    <<"pie", "Pie">>, <<"doughnut", "Doughnut">>, <<"donut", "Doughnut">>,
    <<"scatter", "Scatter">>, <<"bubble", "Scatter">>,
    <<"histogram", "Histogram">>, <<"distribution", "Histogram">> >>

\* the value of the first entry whose key occurs in the text, or None
first_keyword(table, lowered) ==
    LET pick(hits) == IF hits = {} THEN None ELSE table[SetMin(hits)][2]
    IN pick({i \in 1..Len(table) : Contains(lowered, table[i][1])})

\* _detect_explicit_chart_type (the same text in both engines)
_detect_explicit_chart_type(q) ==
    LET detect(lowered) ==
            IF ContainsAny(lowered, {"over time", "over-time", "time series", "timeseries"})
            THEN "Line"
            ELSE first_keyword(ChartMap, lowered)
    IN detect(lower(q))

\* explicit_phrases of nlp_interpreter._choose_chart_type
ExplicitPhrases == <<
    <<"bar chart", "Bar">>, <<"line chart", "Line">>, <<"pie chart", "Pie">>,
    <<"doughnut chart", "Doughnut">>, <<"scatter plot", "Scatter">>,
    <<"histogram", "Histogram">> >>

TimeKeywords == {"over time", "trend", "timeline", "by month", "by year",
                 "monthly", "weekly", "daily"}

ShareKeywords == {"share", "percentage", "percent", "portion", "breakdown"}

ScatterKeywords == {"scatter", "versus", "vs", "against"}

PieMaxCardinality == 8

\* category_cardinality: uniqueCount of the category column, None if no such column
category_cardinality(f, cols) ==
    LET pick(hits) == IF hits = {} THEN -1 ELSE cols[SetMin(hits)].uniqueCount
    IN pick({i \in 1..Len(cols) : cols[i].name = f.category})

pie_allowed(f, cols) ==
    LET allowed(cardinality) == cardinality = -1 \/ cardinality <= PieMaxCardinality
    IN allowed(category_cardinality(f, cols))

\* the rules of _choose_chart_type below the explicit overrides (nlp_interpreter)
infer_chart_type(q, f, cols) ==
    LET rules(query_lower, has_time, has_category, has_value, has_secondary) ==
            IF (has_secondary \/ ContainsAny(query_lower, ScatterKeywords))
               /\ has_value /\ has_secondary THEN "Scatter"
            ELSE IF has_time THEN "Line"
            ELSE IF has_category /\ ContainsAny(query_lower, ShareKeywords)
                    /\ pie_allowed(f, cols) THEN "Pie"
            ELSE IF has_category THEN "Bar"
            ELSE IF has_value /\ has_secondary THEN "Scatter"
            ELSE "Bar"
    IN rules(lower(q), Truthy(f.time), Truthy(f.category), Truthy(f.value),
             Truthy(f.secondary_value))

\* nlp_interpreter._choose_chart_type
_choose_chart_type(q, f, cols) ==
    IfNone(first_keyword(ExplicitPhrases, lower(q)),
           IfNone(_detect_explicit_chart_type(q), infer_chart_type(q, f, cols)))

\* the rules of aichat_nlp._choose_chart_type below the explicit override
aichat_infer_chart_type(q, f, cols) ==
    LET rules(query_lower, has_time, has_category, has_value, has_secondary) ==
            IF (has_secondary \/ ContainsAny(query_lower, ScatterKeywords))
               /\ has_value /\ has_secondary THEN "Scatter"
            ELSE IF has_time /\ (has_value \/ ~has_category
                                 \/ ContainsAny(query_lower, TimeKeywords)) THEN "Line"
            ELSE IF has_category /\ ContainsAny(query_lower, ShareKeywords)
                    /\ pie_allowed(f, cols) THEN "Pie"
            ELSE IF has_category /\ has_value THEN "Bar"
            ELSE IF has_time THEN "Line"
            ELSE IF has_category THEN "Bar"
            ELSE IF has_value /\ has_secondary THEN "Scatter"
            ELSE "Bar"
    IN rules(lower(q), Truthy(f.time), Truthy(f.category), Truthy(f.value),
             Truthy(f.secondary_value))

\* aichat_nlp._choose_chart_type
aichat_choose_chart_type(q, f, cols) ==
    IfNone(_detect_explicit_chart_type(q), aichat_infer_chart_type(q, f, cols))

(***************************************************************************)
(* interpret_nl_query, one operator per block of the function.  The field  *)
(* record f is [value, secondary_value, category, time].                   *)
(***************************************************************************)
EmptyFields == [value |-> None, secondary_value |-> None, category |-> None, time |-> None]

CountWords == {"count", "records", "rows"}

MinFieldScore == Rat(1, 10)

Score(eng, q, name) ==
    IF eng = "aichat" THEN aichat_score_column(q, name).score
    ELSE score_column(q, name).score

CandidatesOf(cols, type) ==
    LET picked == SelectSeq(cols, LAMBDA c : c.type = type)
    IN [i \in 1..Len(picked) |-> picked[i].name]

MentionedColumns(eng, q, cols) ==
    IF eng = "aichat" THEN <<>> ELSE _find_mentioned_columns(q, cols)

\* _detect_visual_intent
_detect_visual_intent(q) ==
    LET lowered == lower(q)
    IN IF ContainsAny(lowered, {"plot", "chart", "graph", "visualize", "visualise",
                                "show", "display", "trend", "over time",
                                "distribution", "breakdown", "compare"})
       THEN "visualize"
       ELSE IF ContainsAny(lowered, {"filter", "subset"}) THEN "filter"
       ELSE IF ContainsAny(lowered, {"average", "sum", "total"}) THEN "summarize"
       ELSE "chat"

\* "Directive hints": Value / Dimension / Time directives
seed_fields(eng, d, cols) ==
    [value |-> IF d.value # <<>> /\ lower(strip(d.value[1])) \notin CountWords
               THEN ResolveColumn(eng, strip(d.value[1]), cols) ELSE None,
     secondary_value |-> None,
     category |-> IF d.dimension # <<>>
                  THEN ResolveColumn(eng, d.dimension[1], cols) ELSE None,
     time |-> IF d.time # <<>> THEN ResolveColumn(eng, d.time[1], cols) ELSE None]

seed_from_directives(eng, q, cols) ==
    Then(_parse_directives(q), LAMBDA d : seed_fields(eng, d, cols))

\* "Dimension via by/per/versus/vs"
assign_dimension(eng, q, cols, f) ==
    IF Falsy(f.category)
    THEN [f EXCEPT !.category = _extract_dimension_from_query(eng, q, cols)]
    ELSE f

TypeOf(cols, name) ==
    LET pick(hits) == IF hits = {} THEN None ELSE cols[SetMax(hits)].type
    IN pick({i \in 1..Len(cols) : cols[i].name = name})

\* "Assign fields from explicit mentions first" (nlp_interpreter only)
RECURSIVE assign_mentions(_, _, _)
assign_mentions(names, cols, f) ==
    LET assign(name, col_type) ==
            IF col_type = "temporal" /\ Falsy(f.time) THEN [f EXCEPT !.time = name]
            ELSE IF col_type = "numeric" /\ Falsy(f.value) THEN [f EXCEPT !.value = name]
            ELSE IF col_type = "categorical" /\ Falsy(f.category)
                 THEN [f EXCEPT !.category = name]
            ELSE f
    IN IF names = <<>> THEN f
       ELSE assign_mentions(Tail(names), cols, assign(Head(names), TypeOf(cols, Head(names))))

\* the highest score above min_score, first candidate on ties
best_scored(scores, candidates, min_score) ==
    LET above == {i \in 1..Len(candidates) : RatLT(min_score, scores[candidates[i]])}
    IN IF above = {} THEN None
       ELSE candidates[SetMin({i \in above : \A j \in above :
                                  RatLE(scores[candidates[j]], scores[candidates[i]])})]

\* _best_match: nlp_interpreter prefers a mentioned candidate, in textual order
_best_match(scores, mentioned, candidates, min_score) ==
    LET hits == {i \in 1..Len(mentioned) :
                   /\ mentioned[i] \in SeqToSet(candidates)
                   /\ (RatLE(min_score, scores[mentioned[i]]) \/ min_score = RatInt(0))}
    IN IF hits # {} THEN mentioned[SetMin(hits)]
       ELSE best_scored(scores, candidates, min_score)

\* match_details[name]["score"] of every column, computed once per query
ScoreTable(eng, q, cols) ==
    Then(q, LAMBDA text : [n \in SeqToSet(Names(cols)) |-> Score(eng, text, n)] @@ <<>>)

\* the best candidate of a type, the only candidate when none scores
best_of_type(scores, mentioned, cols, type) ==
    LET candidates == CandidatesOf(cols, type)
        best == _best_match(scores, mentioned, candidates, MinFieldScore)
    IN CASE Truthy(best) -> best
         [] Len(candidates) = 1 -> candidates[1]
         [] OTHER -> best

fill_slot(scores, mentioned, cols, current, type) ==
    IF Truthy(current) THEN current ELSE best_of_type(scores, mentioned, cols, type)

mentions_time(q) == ContainsAny(lower(q), TimeKeywords)

\* time from the best temporal candidate, or the first one under trend language
best_time(scores, mentioned, q, cols) ==
    LET candidates == CandidatesOf(cols, "temporal")
        best == _best_match(scores, mentioned, candidates, MinFieldScore)
    IN CASE Truthy(best) -> best
         [] mentions_time(q) /\ candidates # <<>> -> candidates[1]
         [] OTHER -> best

\* "Fill missing fields deterministically": value, then category
fill_missing(scores, mentioned, cols, f) ==
    [f EXCEPT !.value = fill_slot(scores, mentioned, cols, f.value, "numeric"),
              !.category = fill_slot(scores, mentioned, cols, f.category, "categorical")]

resolve_time(scores, mentioned, q, cols, f) ==
    IF Truthy(f.time) THEN f
    ELSE [f EXCEPT !.time = best_time(scores, mentioned, q, cols)]

\* sorted(((temporalScore, name) ...), reverse=True), falsy names dropped
RECURSIVE rank_desc(_, _)
rank_desc(pending, key) ==
    LET after(top) == <<top>> \o rank_desc(pending \ {top}, key)
    IN IF pending = {} THEN <<>>
       ELSE after(CHOOSE x \in pending : \A y \in pending :
                      \/ x = y
                      \/ RatLT(key[y], key[x])
                      \/ (key[x] = key[y] /\ StrLT(y, x)))

TemporalScoreOf(cols, name) ==
    cols[SetMax({i \in 1..Len(cols) : cols[i].name = name})].temporalScore

ranked_temporal(cols) ==
    LET ranked(names) ==
            SelectSeq(rank_desc(names, [n \in names |-> TemporalScoreOf(cols, n)]), Truthy)
    IN ranked(SeqToSet(Names(cols)))

explicit_line_requested(q) ==
    \/ _detect_explicit_chart_type(q) = "Line"
    \/ ContainsAny(lower(q), {"over time", "over-time", "time series", "timeseries"})

\* "If a line/time was explicitly requested but no time field resolved"
explicit_line_fallback(q, cols, f) ==
    LET fallback(ranked, hits) ==
            IF hits # {} THEN [f EXCEPT !.time = ranked[SetMin(hits)]]
            ELSE IF ranked # <<>> /\ Truthy(ranked[1]) THEN [f EXCEPT !.time = ranked[1]]
            ELSE IF Truthy(f.category) THEN [f EXCEPT !.time = f.category, !.category = None]
            ELSE f
        among(ranked) ==
            fallback(ranked, {i \in 1..Len(ranked) :
                                /\ ranked[i] # f.value
                                /\ RatLT(RatInt(0), TemporalScoreOf(cols, ranked[i]))})
    IN IF ~explicit_line_requested(q) \/ Truthy(f.time) THEN f
       ELSE among(ranked_temporal(cols))

TrendGroupingKeywords == {" by ", " per ", " versus ", " vs ", " against "}

\* "drop category to avoid double-grouping"
drop_category_on_trend(q, f) ==
    IF /\ mentions_time(q) /\ Truthy(f.time) /\ _parse_directives(q).dimension = <<>>
       /\ ~ContainsAny(lower(q), TrendGroupingKeywords)
    THEN [f EXCEPT !.category = None] ELSE f

\* next((name for name in numeric_candidates if name != time_field), None)
alternative_numeric(cols, time_field) ==
    LET first(others) == IF others = <<>> THEN None ELSE others[1]
    IN first(SelectSeq(CandidatesOf(cols, "numeric"), LAMBDA n : n # time_field))

\* the conflict step without its category/time rule (lines 602-603)
resolve_conflicts_value_only(cols, f) ==
    IF Truthy(f.time) /\ Truthy(f.value) /\ f.value = f.time
    THEN [f EXCEPT !.value = alternative_numeric(cols, f.time)]
    ELSE f

\* "Ensure fields are not self-conflicting"
resolve_conflicts(cols, f) ==
    LET value_apart(g) ==
            IF Truthy(g.time) /\ Truthy(g.value) /\ g.value = g.time
            THEN [g EXCEPT !.value = alternative_numeric(cols, g.time)]
            ELSE g
    IN value_apart(IF Truthy(f.category) /\ Truthy(f.time) /\ f.category = f.time
                   THEN [f EXCEPT !.category = None] ELSE f)

scatter_requested(q) == ContainsAny(lower(q), ScatterKeywords)

\* sorted(((score, name) for name in numeric_candidates), reverse=True), score > 0
ranked_numeric(scores, cols) ==
    SelectSeq(rank_desc(SeqToSet(CandidatesOf(cols, "numeric")), scores),
              LAMBDA n : RatLT(RatInt(0), scores[n]))

pick_axes(f, first, second) ==
    LET second_axis(g) ==
            IF Falsy(g.secondary_value) \/ g.secondary_value = g.value
            THEN [g EXCEPT !.secondary_value = second] ELSE g
    IN second_axis(IF Falsy(f.value) THEN [f EXCEPT !.value = first] ELSE f)

\* "Scatter detection: choose two numeric axes deterministically"
scatter_axes(scores, q, cols, f) ==
    LET ranked == ranked_numeric(scores, cols)
        numeric == CandidatesOf(cols, "numeric")
    IN CASE ~scatter_requested(q) -> f
         [] Len(ranked) >= 2 -> pick_axes(f, ranked[1], ranked[2])
         [] Len(numeric) >= 2 -> pick_axes(f, numeric[1], numeric[2])
         [] OTHER -> f

\* the final reset of secondary_value
clear_secondary(f) ==
    IF f.secondary_value = f.value \/ (Truthy(f.time) /\ f.secondary_value = f.time)
    THEN [f EXCEPT !.secondary_value = None] ELSE f

\* "Final deterministic chart type", with the explicit override that follows it
final_chart_type(eng, q, cols, f) ==
    IfNone(_detect_explicit_chart_type(q),
           IF eng = "aichat" THEN aichat_choose_chart_type(q, f, cols)
           ELSE _choose_chart_type(q, f, cols))

\* the fields interpret_nl_query returns
assigned_fields(eng, q, cols, scores, mentioned) ==
    resolve_time(scores, mentioned, q, cols,
        fill_missing(scores, mentioned, cols,
            assign_mentions(mentioned, cols,
                assign_dimension(eng, q, cols, seed_from_directives(eng, q, cols)))))

settled_fields(q, cols, scores, f) ==
    clear_secondary(scatter_axes(scores, q, cols,
        resolve_conflicts(cols,
            drop_category_on_trend(q, explicit_line_fallback(q, cols, f)))))

resolved_fields(eng, q, cols) ==
    Then(ScoreTable(eng, q, cols), LAMBDA scores :
        Then(assigned_fields(eng, q, cols, scores, MentionedColumns(eng, q, cols)),
             LAMBDA f : settled_fields(q, cols, scores, f)))

(***************************************************************************)
(* JSON values.  A record (row) is a dict whose values are scalars.        *)
(***************************************************************************)
Null == [k |-> "null"]

I(n) == [k |-> "int", n |-> n]

S(s) == [k |-> "str", s |-> s]

L(items) == [k |-> "list", items |-> items]

D(items) == [k |-> "dict", items |-> items]

KV(key, val) == [key |-> key, val |-> val]

\* key in row
HasKey(row, key) == \E i \in 1..Len(row.items) : row.items[i].key = key

\* row.get(key): the value stored last under the key, None (Null) when absent
Get(row, key) ==
    IF key # None /\ HasKey(row, key)
    THEN row.items[SetMax({i \in 1..Len(row.items) : row.items[i].key = key})].val
    ELSE Null

\* value in (None, "")
IsBlank(v) == v = Null \/ v = S("")

RECURSIVE DigitsOf(_)
DigitsOf(n) ==
    IF n < 10 THEN Ch("0123456789", n + 1)
    ELSE DigitsOf(n \div 10) \o Ch("0123456789", (n % 10) + 1)

\* repr(value); a text is taken to hold no quote and no backslash
RECURSIVE Repr(_)
Repr(v) ==
    LET listed(texts) ==
            Concat([i \in 1..Len(texts) |-> (IF i > 1 THEN ", " ELSE "") \o texts[i]],
                   1, Len(texts))
    IN CASE v.k = "null" -> "None"
         [] v.k = "int" -> IF v.n < 0 THEN "-" \o DigitsOf(-v.n) ELSE DigitsOf(v.n)
         [] v.k = "bool" -> IF v.b THEN "True" ELSE "False"
         [] v.k = "str" -> "'" \o v.s \o "'"
         [] v.k = "list" ->
              "[" \o listed([i \in 1..Len(v.items) |-> Repr(v.items[i])]) \o "]"
         [] v.k = "dict" ->
              "{" \o listed([i \in 1..Len(v.items) |->
                               "'" \o v.items[i].key \o "': " \o Repr(v.items[i].val)])
              \o "}"

\* str(value)
Str(v) == IF v.k = "str" THEN v.s ELSE Repr(v)

IsDigits(s) == s # "" /\ \A i \in 1..Len(s) : Ch(s, i) \in DigitChars

RECURSIVE ToInt(_)
ToInt(s) ==
    IF s = "" THEN 0
    ELSE 10 * ToInt(SubSeq(s, 1, Len(s) - 1)) + (find("0123456789", Ch(s, Len(s))) - 1)

DigitRunEnd(s, j) == ScanWhile(s, j, LAMBDA c : c \in DigitChars)

remove_commas(s) ==
    Concat([i \in 1..Len(s) |-> IF Ch(s, i) = "," THEN "" ELSE Ch(s, i)], 1, Len(s))

Num(v) == [k |-> "num", v |-> v]

\* hundredths denoted by the fraction digits (the first two are kept)
FractionHundredths(digits) ==
    IF Len(digits) = 1 THEN 10 * ToInt(digits) ELSE ToInt(SubSeq(digits, 1, 2))

\* float(re.search(r"-?\d+(?:\.\d+)?", cleaned).group()), in hundredths
first_number(cleaned) ==
    LET signed(negative, magnitude) == Num(IF negative THEN -magnitude ELSE magnitude)
        fraction(e) ==
            IF /\ e + 1 <= Len(cleaned) /\ Ch(cleaned, e) = "."
               /\ Ch(cleaned, e + 1) \in DigitChars
            THEN FractionHundredths(SubSeq(cleaned, e + 1, DigitRunEnd(cleaned, e + 1) - 1))
            ELSE 0
        digits(d, e) ==
            signed(d > 1 /\ Ch(cleaned, d - 1) = "-",
                   100 * ToInt(SubSeq(cleaned, d, e - 1)) + fraction(e))
        from(d) == IF d = 0 THEN NoneVal ELSE digits(d, DigitRunEnd(cleaned, d))
    IN from(FirstOf({i \in 1..Len(cleaned) : Ch(cleaned, i) \in DigitChars}))

\* _safe_float: NoneVal or Num(hundredths)
_safe_float(v) ==
    CASE v.k = "int" -> Num(100 * v.n)
      [] v.k = "bool" -> Num(IF v.b THEN 100 ELSE 0)
      [] v.k = "str" -> first_number(remove_commas(strip(v.s)))
      [] OTHER -> NoneVal

(***************************************************************************)
(* Dates.  A date is [y, m, d]; the clock `today` is a date.               *)
(* dateutil.parser.parse is modelled on the texts the model's datasets     *)
(* hold: digit strings of at most five digits, YYYY-MM-DD, YYYY-MM, and    *)
(* texts dateutil rejects (no digit, no month, weekday or zone name).      *)
(***************************************************************************)
IsLeap(y) == (y % 4 = 0 /\ y % 100 # 0) \/ y % 400 = 0

DaysIn(y, m) ==
    IF m = 2 THEN (IF IsLeap(y) THEN 29 ELSE 28)
    ELSE IF m \in {4, 6, 9, 11} THEN 30 ELSE 31

Date(y, m, d) == [k |-> "dt", y |-> y, m |-> m, d |-> d]

ValidDate(y, m, d) == y >= 1 /\ y <= 9999 /\ m >= 1 /\ m <= 12 /\ d >= 1 /\ d <= DaysIn(y, m)

MinOf(a, b) == IF a <= b THEN a ELSE b

\* text split at the characters of seps
split_on(s, seps) ==
    LET cuts == {i \in 1..Len(s) : Ch(s, i) \in seps}
        from(n) == IF n = 1 THEN 1 ELSE Nth(cuts, n - 1) + 1
        to(n) == IF n = Cardinality(cuts) + 1 THEN Len(s) ELSE Nth(cuts, n) - 1
    IN [n \in 1..(Cardinality(cuts) + 1) |-> SubSeq(s, from(n), to(n))]

\* dateutil's century rule for two-digit years, relative to the clock
convertyear(v, now) ==
    LET century == (now.y \div 100) * 100
        y == v + century
    IN IF y >= now.y + 50 THEN y - 100
       ELSE IF y < now.y - 50 THEN y + 100 ELSE y

\* a lone number: a day of the current month when <= 31, otherwise a year
parse_lone_number(text, now) ==
    LET as_year(year) ==
            IF year >= 1 /\ year <= 9999
            THEN Date(year, now.m, MinOf(now.d, DaysIn(year, now.m)))
            ELSE NoneVal
        number(v) ==
            IF Len(text) > 4 THEN NoneVal
            ELSE IF v <= 31 /\ Len(text) <= 2
                 THEN (IF ValidDate(now.y, now.m, v) THEN Date(now.y, now.m, v) ELSE NoneVal)
            ELSE as_year(IF Len(text) <= 2 THEN convertyear(v, now) ELSE v)
    IN number(ToInt(text))

\* date_parser.parse(text): a date, or NoneVal where it raises ParserError
date_parser_parse(text, now) ==
    LET ymd(y, m, d) == IF ValidDate(y, m, d) THEN Date(y, m, d) ELSE NoneVal
        ym(y, m) ==
            IF ValidDate(y, m, 1) THEN Date(y, m, MinOf(now.d, DaysIn(y, m))) ELSE NoneVal
        dashed(parts) ==
            IF /\ Len(parts) \in {2, 3} /\ \A i \in 1..Len(parts) : IsDigits(parts[i])
               /\ Len(parts[1]) = 4 /\ \A i \in 2..Len(parts) : Len(parts[i]) <= 2
            THEN (IF Len(parts) = 3
                  THEN ymd(ToInt(parts[1]), ToInt(parts[2]), ToInt(parts[3]))
                  ELSE ym(ToInt(parts[1]), ToInt(parts[2])))
            ELSE NoneVal
    IN IF IsDigits(text) THEN parse_lone_number(text, now)
       ELSE dashed(split_on(text, {"-"}))

(***************************************************************************)
(* Column analysis (nlp_extraction.py; aichat_nlp.py has the same text).   *)
(***************************************************************************)
TemporalNameKeywords == {"date", "time", "year", "month", "day", "week", "quarter",
                         "timestamp"}

\* iso_pattern = ^\d{4}[-/](?:\d{1,2})(?:[-/]\d{1,2})?$
iso_like(text) ==
    LET shape(parts) ==
            /\ Len(parts) \in {2, 3}
            /\ \A i \in 1..Len(parts) : IsDigits(parts[i])
            /\ Len(parts[1]) = 4
            /\ \A i \in 2..Len(parts) : Len(parts[i]) <= 2
    IN shape(split_on(text, {"-", "/"}))

is_numeric_year(text) ==
    LET in_range(f) == f # NoneVal /\ f.v >= 180000 /\ f.v <= 220000 /\ f.v % 100 = 0
    IN in_range(_safe_float(S(text)))

\* the values the scoring loops count: not None, not ""
Counted(values) == SelectSeq(values, LAMBDA v : ~IsBlank(v))

SampleLimit == 200

Sample(values) == FirstN(values, SampleLimit)

\* str(value).strip() of the sampled values that are counted
SampleTexts(values) ==
    LET counted == Counted(Sample(values))
    IN [i \in 1..Len(counted) |-> strip(Str(counted[i]))]

\* date_parser.parse of every text; an empty text is skipped
parse_texts(texts, now) ==
    [i \in 1..Len(texts) |->
        IF texts[i] = "" THEN NoneVal ELSE date_parser_parse(texts[i], now)]

temporal_confidence(name, texts, dates) ==
    LET total == Len(texts)
        failed == {i \in 1..total : texts[i] # "" /\ dates[i] = NoneVal}
        base == IF ContainsAny(lower(name), TemporalNameKeywords) THEN 40 ELSE 0
    IN IF total = 0 THEN Rat(base, 100)
       ELSE RatMin(RatInt(1),
                   Rat(base * total
                       + 60 * Cardinality({i \in 1..total : dates[i] # NoneVal})
                       + 25 * Cardinality({i \in failed : is_numeric_year(texts[i])})
                       + 15 * Cardinality({i \in failed : iso_like(texts[i])}),
                       100 * total))

\* _temporal_score, as an exact fraction
_temporal_score(name, values, now) ==
    temporal_confidence(name, SampleTexts(values), parse_texts(SampleTexts(values), now))

\* _numeric_ratio
_numeric_ratio(values) ==
    LET share(counted) ==
            IF counted = <<>> THEN RatInt(0)
            ELSE Rat(Cardinality({i \in 1..Len(counted) :
                                    _safe_float(counted[i]) # NoneVal}),
                     Len(counted))
    IN share(Counted(Sample(values)))

TypeThreshold == Rat(6, 10)

\* keys of all rows, first-seen order
RECURSIVE ordered_keys(_, _)
ordered_keys(items, acc) ==
    IF items = <<>> THEN acc
    ELSE ordered_keys(Tail(items),
                      IF Head(items).key \in SeqToSet(acc) THEN acc
                      ELSE Append(acc, Head(items).key))

\* where a key is first met: the row, then the place in the row
FirstSeen(rows, key) ==
    LET row == SetMin({i \in 1..Len(rows) : HasKey(rows[i], key)})
    IN <<row, SetMin({j \in 1..Len(rows[row].items) : rows[row].items[j].key = key})>>

\* the keys of all rows in the order in which they are first met
ordered_names(rows) ==
    LET keys == UNION {{rows[i].items[j].key : j \in 1..Len(rows[i].items)} :
                          i \in 1..Len(rows)}
        before(a, b) == a[1] < b[1] \/ (a[1] = b[1] /\ a[2] < b[2])
        seen == [k \in keys |-> FirstSeen(rows, k)] @@ <<>>
    IN [p \in 1..Cardinality(keys) |->
          CHOOSE k \in keys : Cardinality({o \in keys : before(seen[o], seen[k])}) = p - 1]
       \o <<>>

\* the descriptor of a column typed with the numeric test ahead of the temporal one
descriptor_numeric_first(name, temporal_conf, numeric_conf, non_null) ==
    [name |-> name,
     type |-> IF RatLE(TypeThreshold, numeric_conf) THEN "numeric"
              ELSE IF RatLE(TypeThreshold, temporal_conf) THEN "temporal"
              ELSE "categorical",
     nonNullCount |-> Len(non_null),
     uniqueCount |-> Cardinality({Str(non_null[i]) : i \in 1..Len(non_null)}),
     numericRatio |-> numeric_conf,
     temporalScore |-> temporal_conf]

descriptor(name, temporal_conf, numeric_conf, non_null) ==
    [name |-> name,
     type |-> IF RatLE(TypeThreshold, temporal_conf) THEN "temporal"
              ELSE IF RatLE(TypeThreshold, numeric_conf) THEN "numeric"
              ELSE "categorical",
     nonNullCount |-> Len(non_null),
     uniqueCount |-> Cardinality({Str(non_null[i]) : i \in 1..Len(non_null)}),
     numericRatio |-> numeric_conf,
     temporalScore |-> temporal_conf]

\* [row.get(name) for row in dataset]
ColumnValues(rows, name) == [i \in 1..Len(rows) |-> Get(rows[i], name)]

column_descriptor(rows, name, now) ==
    descriptor(name, _temporal_score(name, ColumnValues(rows, name), now),
               _numeric_ratio(ColumnValues(rows, name)), Counted(ColumnValues(rows, name)))

\* analyse_columns
analyse_columns(rows, now) ==
    Then(ordered_names(rows),
         LAMBDA names : [i \in 1..Len(names) |-> column_descriptor(rows, names[i], now)]
                        \o <<>>)

(***************************************************************************)
(* Filters.  A filter is [column, operator, value, raw]; value is          *)
(* Num(hundredths) or S(text).                                             *)
(***************************************************************************)
OperatorChars == {"!", "=", "<", ">"}

\* pattern.match of ([^!=<>]+?)\s*(=|!=|>=|<=|>|<)\s*(.+) on the stripped text:
\* [hint, operator, value_text] or NoneVal
filter_match(text) ==
    LET \* the lazy hint stops before the blanks that precede the operator
        hint(p) ==
            SubSeq(text, 1, SetMax({1} \cup {i \in 1..(p - 1) : Ch(text, i) \notin SpaceChars}))
        \* (.+) needs at least one character after the operator
        operator(p, c, two) ==
            IF c \in {"!", ">", "<"} /\ two /\ p + 2 <= Len(text)
            THEN [hint |-> hint(p), operator |-> c \o "=",
                  value_text |-> SubSeq(text, p + 2, Len(text))]
            ELSE IF c \in {"=", ">", "<"} /\ p + 1 <= Len(text)
            THEN [hint |-> hint(p), operator |-> c,
                  value_text |-> SubSeq(text, p + 1, Len(text))]
            ELSE NoneVal
        at(p) ==
            IF p <= 1 THEN NoneVal
            ELSE operator(p, Ch(text, p), p + 1 <= Len(text) /\ Ch(text, p + 1) = "=")
    IN at(FirstOf({i \in 1..Len(text) : Ch(text, i) \in OperatorChars}))

IfNoneVal(x, y) == IF x # NoneVal THEN x ELSE y

filter_on(column_name, operator, value_text, raw) ==
    IF Falsy(column_name) THEN NoneVal
    ELSE [column |-> column_name, operator |-> operator,
          value |-> IfNoneVal(_safe_float(S(value_text)), S(value_text)),
          raw |-> strip(raw)]

filter_from(eng, m, raw, cols) ==
    IF m = NoneVal THEN NoneVal
    ELSE filter_on(ResolveColumn(eng, m.hint, cols), m.operator,
                   strip_chars(strip_chars(strip(m.value_text), {"\""}), {"'"}), raw)

parse_filter(eng, raw, cols) == filter_from(eng, filter_match(strip(raw)), raw, cols)

\* _parse_filters
RECURSIVE _parse_filters(_, _, _)
_parse_filters(eng, filter_texts, cols) ==
    LET keep(flt) ==
            (IF flt = NoneVal THEN <<>> ELSE <<flt>>)
            \o _parse_filters(eng, Tail(filter_texts), cols)
    IN IF filter_texts = <<>> THEN <<>>
       ELSE keep(parse_filter(eng, Head(filter_texts), cols))

compare_numbers(operator, a, b) ==
    CASE operator = "=" -> a = b
      [] operator = "!=" -> a # b
      [] operator = ">" -> a > b
      [] operator = "<" -> a < b
      [] operator = ">=" -> a >= b
      [] operator = "<=" -> a <= b
      [] OTHER -> FALSE

compare_texts(operator, a, b) ==
    CASE operator = "=" -> a = b
      [] operator = "!=" -> a # b
      [] operator = ">" -> StrLT(b, a)
      [] operator = "<" -> StrLT(a, b)
      [] operator = ">=" -> ~StrLT(a, b)
      [] operator = "<=" -> ~StrLT(b, a)
      [] OTHER -> FALSE

\* a filter that lets "!=" hold on a cell that is missing, null or not a number
_passes_unequal_by_default(row, flt) ==
    LET cell == Get(row, flt.column)
    IN IF cell = Null \/ (flt.value.k = "num" /\ _safe_float(cell) = NoneVal)
       THEN flt.operator = "!="
       ELSE IF flt.value.k = "num"
            THEN compare_numbers(flt.operator, _safe_float(cell).v, flt.value.v)
            ELSE IF cell.k = "str"
                 THEN compare_texts(flt.operator, strip(cell.s), flt.value.s)
                 ELSE flt.operator = "!="

\* _apply_filters._passes
_passes(row, flt) ==
    LET numbers(numeric_value) ==
            /\ numeric_value # NoneVal
            /\ compare_numbers(flt.operator, numeric_value.v, flt.value.v)
        compare(raw_value) ==
            IF raw_value = Null THEN FALSE
            ELSE IF flt.value.k = "num" THEN numbers(_safe_float(raw_value))
            ELSE IF raw_value.k = "str"
                 THEN compare_texts(flt.operator, strip(raw_value.s), flt.value.s)
            \* a number against a text: == is False, != is True, ordering raises TypeError
            ELSE flt.operator = "!="
    IN compare(Get(row, flt.column))

\* _apply_filters
_apply_filters(rows, filters) ==
    SelectSeq(rows, LAMBDA row : \A i \in 1..Len(filters) : _passes(row, filters[i]))

\* the list _apply_filters was handed, with the rejected rows removed from it
input_filtered_in_place(rows, filtered) == filtered

\* the list _apply_filters was handed, once it has returned: the rows that
\* pass are appended to a new list
input_after_filters(rows, filtered) == rows

\* interpret_nl_query's result
interpreted_as(eng, q, cols, f) ==
    [intent |-> _detect_visual_intent(q),
     chart_type |-> final_chart_type(eng, q, cols, f),
     fields |-> f,
     filters |-> _parse_filters(eng, _parse_directives(q).filter, cols)]

interpretation(eng, q, cols) ==
    Then(resolved_fields(eng, q, cols), LAMBDA f : interpreted_as(eng, q, cols, f))

(***************************************************************************)
(* Temporal utilities of aichat_nlp.py.                                    *)
(***************************************************************************)
MonthAbbr == <<"jan", "feb", "mar", "apr", "may", "jun", "jul", "aug", "sep",
               "oct", "nov", "dec">>

MonthFull == <<"january", "february", "march", "april", "may", "june", "july",
               "august", "september", "october", "november", "december">>

IndexIn(sq, x) == FirstOf({i \in 1..Len(sq) : sq[i] = x})

IsLetters(s) == s # "" /\ \A i \in 1..Len(s) : Ch(s, i) \in (LowerChars \cup UpperChars)

\* (18|19|20|21)\d{2} at position i
CenturyYearAt(s, i, centuries) ==
    /\ i + 3 <= Len(s)
    /\ SubSeq(s, i, i + 1) \in centuries
    /\ IsDigits(SubSeq(s, i + 2, i + 3))

\* _QUARTER_PATTERN.search: the quarter digit of the leftmost q[1-4] / [1-4]q, or 0
quarter_search(text) ==
    LET digit(u, i) ==
            IF i = 0 THEN 0
            ELSE ToInt(IF Ch(u, i) = "q" THEN Ch(u, i + 1) ELSE Ch(u, i))
        search(u) ==
            digit(u, FirstOf({i \in 1..(Len(u) - 1) :
                   \/ (Ch(u, i) = "q" /\ Ch(u, i + 1) \in {"1", "2", "3", "4"})
                   \/ (Ch(u, i) \in {"1", "2", "3", "4"} /\ Ch(u, i + 1) = "q")}))
    IN search(lower(text))

\* re.search(r"(18|19|20|21)\d{2}", text): the year, or 0
year_search(text) ==
    LET year(i) == IF i = 0 THEN 0 ELSE ToInt(SubSeq(text, i, i + 3))
    IN year(FirstOf({i \in 1..Len(text) :
                       CenturyYearAt(text, i, {"18", "19", "20", "21"})}))

\* 0?[1-9]|1[0-2]
IsMonthText(s) ==
    /\ IsDigits(s) /\ Len(s) <= 2 /\ ToInt(s) \in 1..12
    /\ (Len(s) = 2 => Ch(s, 1) \in {"0", "1"})

IsYearText(s, centuries) == Len(s) = 4 /\ CenturyYearAt(s, 1, centuries)

Classified(cls, y, q, m, d) == [cls |-> cls, y |-> y, q |-> q, m |-> m, d |-> d]

\* the branches of _classify_temporal_value that work on the text
classify_parts(text, quarter, year, parts, words, parsed) ==
    LET month == IF Len(words) = 2 /\ IsLetters(words[1]) /\ Len(words[1]) >= 3
                 THEN IndexIn(MonthAbbr, lower(SubSeq(words[1], 1, 3))) ELSE 0
    IN IF quarter # 0 /\ year # 0 THEN Classified("quarter", year, quarter, 0, 0)
       ELSE IF IsYearText(text, {"18", "19", "20", "21"})
       THEN Classified("year", ToInt(text), 0, 0, 0)
       ELSE IF Len(parts) = 2 /\ IsYearText(parts[1], {"19", "20", "21"})
               /\ IsMonthText(parts[2])
       THEN Classified("month", ToInt(parts[1]), 0, ToInt(parts[2]), 0)
       ELSE IF Len(parts) = 2 /\ IsMonthText(parts[1])
               /\ IsYearText(parts[2], {"19", "20", "21"})
       THEN Classified("month", ToInt(parts[2]), 0, ToInt(parts[1]), 0)
       ELSE IF Len(words) = 2 /\ month # 0 /\ IsYearText(words[2], {"19", "20", "21"})
       THEN Classified("month", ToInt(words[2]), 0, month, 0)
       ELSE IF parsed # NoneVal THEN Classified("date", parsed.y, 0, parsed.m, parsed.d)
       ELSE NoneVal

classify_text(text, now) ==
    classify_parts(text, quarter_search(text), year_search(text),
                   split_on(text, {"-", "/"}), split(text),
                   date_parser_parse(text, now))

\* aichat_nlp._classify_temporal_value: a classification record or NoneVal
aichat_classify_temporal_value(v, now) ==
    IF IsBlank(v) THEN NoneVal
    ELSE IF v.k = "int" /\ v.n >= 1800 /\ v.n <= 2200
         THEN Classified("year", v.n, 0, 0, 0)
    ELSE IF strip(Str(v)) = "" THEN NoneVal
    ELSE classify_text(strip(Str(v)), now)

GranularityLevels == <<"year", "quarter", "month", "date">>

\* the level with the highest tally, the coarser one on a tie
aichat_infer_temporal_granularity(values, now) ==
    LET highest(bucket_scores, top) ==
            GranularityLevels[SetMin({i \in 1..4 : bucket_scores[i] = top})]
        tally(bucket_scores) ==
            highest(bucket_scores, SetMax({bucket_scores[i] : i \in 1..4}))
        levels(cls) ==
            IF \A i \in 1..Len(values) : cls[i] = NoneVal THEN "date"
            ELSE tally([n \in 1..4 |->
                    Cardinality({i \in 1..Len(values) :
                        /\ cls[i] # NoneVal
                        /\ cls[i].cls \in (IF n = 3 THEN {"month", "datetime"}
                                            ELSE {GranularityLevels[n]})})])
    IN levels([i \in 1..Len(values) |-> aichat_classify_temporal_value(values[i], now)])

\* _ensure_datetime_from_info
aichat_ensure_datetime_from_info(c) ==
    CASE c.cls \in {"date", "datetime"} -> Date(c.y, c.m, c.d)
      [] c.cls = "month" -> Date(c.y, c.m, 1)
      [] c.cls = "quarter" -> Date(c.y, (c.q - 1) * 3 + 1, 1)
      [] c.cls = "year" -> Date(c.y, 1, 1)

Pad2(n) == IF n < 10 THEN "0" \o DigitsOf(n) ELSE DigitsOf(n)

Bucket(label, sort) == [k |-> "bucket", label |-> label, sort |-> sort]

\* aichat_nlp._format_time_bucket: label and sort key, NoneVal for (None, None)
aichat_format_time_bucket(v, granularity, now) ==
    LET year_bucket(y) == Bucket(DigitsOf(y), <<y>>)
        quarter_bucket(y, q) == Bucket(DigitsOf(y) \o "-Q" \o DigitsOf(q), <<y, q>>)
        format(c, dt) ==
            CASE granularity = "year" -> year_bucket(IF c.cls = "year" THEN c.y ELSE dt.y)
              [] granularity = "quarter" ->
                   IF c.cls = "quarter" THEN quarter_bucket(c.y, c.q)
                   ELSE quarter_bucket(dt.y, ((dt.m - 1) \div 3) + 1)
              [] granularity = "month" ->
                   Bucket(DigitsOf(dt.y) \o "-" \o Pad2(dt.m), <<dt.y, dt.m>>)
              [] OTHER ->
                   Bucket(DigitsOf(dt.y) \o "-" \o Pad2(dt.m) \o "-" \o Pad2(dt.d),
                          <<dt.y, dt.m, dt.d>>)
        classified(c) ==
            IF c = NoneVal THEN NoneVal ELSE format(c, aichat_ensure_datetime_from_info(c))
    IN classified(aichat_classify_temporal_value(v, now))

(***************************************************************************)
(* Temporal utilities of nlp_engine/temporal_utils.py.                     *)
(***************************************************************************)
MonthNumber(word) ==
    LET number(lowered, abbr) == IF abbr # 0 THEN abbr ELSE IndexIn(MonthFull, lowered)
        named(lowered) == number(lowered, IndexIn(MonthAbbr, lowered))
    IN named(lower(word))

IsDayOrMonthDigits(s) == IsDigits(s) /\ Len(s) <= 2

StrictDate(y, m, d) == IF ValidDate(y, m, d) THEN Date(y, m, d) ELSE NoneVal

\* datetime.strptime over the list of formats, first format that fits
strptime_formats(text) ==
    LET ymd(parts) == /\ Len(parts) = 3 /\ Len(parts[1]) = 4 /\ IsDigits(parts[1])
                      /\ IsDayOrMonthDigits(parts[2]) /\ IsDayOrMonthDigits(parts[3])
                      /\ ValidDate(ToInt(parts[1]), ToInt(parts[2]), ToInt(parts[3]))
        ym(parts) == /\ Len(parts) = 2 /\ Len(parts[1]) = 4 /\ IsDigits(parts[1])
                     /\ IsDayOrMonthDigits(parts[2])
                     /\ ValidDate(ToInt(parts[1]), ToInt(parts[2]), 1)
        year4(s) == Len(s) = 4 /\ IsDigits(s) /\ ToInt(s) >= 1
        formats(dash, slash, words) ==
            IF ymd(dash) THEN Date(ToInt(dash[1]), ToInt(dash[2]), ToInt(dash[3]))
            ELSE IF ymd(slash) THEN Date(ToInt(slash[1]), ToInt(slash[2]), ToInt(slash[3]))
            ELSE IF ym(dash) THEN Date(ToInt(dash[1]), ToInt(dash[2]), 1)
            ELSE IF ym(slash) THEN Date(ToInt(slash[1]), ToInt(slash[2]), 1)
            ELSE IF year4(text) THEN Date(ToInt(text), 1, 1)
            ELSE IF Len(words) = 2 /\ IsLetters(words[1]) /\ MonthNumber(words[1]) # 0
                    /\ year4(words[2])
            THEN Date(ToInt(words[2]), MonthNumber(words[1]), 1)
            ELSE IF Len(words) = 2 /\ IsLetters(words[2]) /\ MonthNumber(words[2]) # 0
                    /\ year4(words[1])
            THEN Date(ToInt(words[1]), MonthNumber(words[2]), 1)
            ELSE IF /\ Len(dash) = 3 /\ IsDayOrMonthDigits(dash[1]) /\ IsLetters(dash[2])
                    /\ MonthNumber(dash[2]) # 0 /\ year4(dash[3])
            THEN StrictDate(ToInt(dash[3]), MonthNumber(dash[2]), ToInt(dash[1]))
            ELSE IF /\ Len(slash) = 3 /\ IsDayOrMonthDigits(slash[1])
                    /\ IsDayOrMonthDigits(slash[2]) /\ year4(slash[3])
            THEN (IF ValidDate(ToInt(slash[3]), ToInt(slash[1]), ToInt(slash[2]))
                  THEN Date(ToInt(slash[3]), ToInt(slash[1]), ToInt(slash[2]))
                  ELSE StrictDate(ToInt(slash[3]), ToInt(slash[2]), ToInt(slash[1])))
            ELSE NoneVal
    IN formats(split_on(text, {"-"}), split_on(text, {"/"}), split(text))

\* temporal_utils._parse_date_safe: only texts are parsed
_parse_date_safe(v) == IF v.k = "str" THEN strptime_formats(strip(v.s)) ELSE NoneVal

\* temporal_utils._classify_temporal_value
_classify_temporal_value(v) ==
    LET classify(dt) ==
            IF dt = NoneVal THEN None
            ELSE IF dt.d # 1 THEN "date"
            ELSE IF dt.m # 1 THEN "month"
            ELSE IF dt.m \in {1, 4, 7, 10} THEN "quarter"
            ELSE "year"
    IN classify(_parse_date_safe(v))

\* temporal_utils._infer_temporal_granularity: the finest level present, or None
_infer_temporal_granularity(values) ==
    LET finest(detected) ==
            IF "date" \in detected THEN "date"
            ELSE IF "month" \in detected THEN "month"
            ELSE IF "quarter" \in detected THEN "quarter"
            ELSE IF "year" \in detected THEN "year"
            ELSE None
    IN finest({_classify_temporal_value(values[i]) : i \in 1..Len(values)})

\* temporal_utils._format_time_bucket returns ONE string; the builder hands it
\* the raw cell, which is never a datetime, so the string is str(cell)
_format_time_bucket(v, granularity) == Str(v)

(***************************************************************************)
(* Chart construction (nlp_engine/chart_builder.py; aichat_nlp.py carries  *)
(* the same text and differs only in the temporal utilities it calls).     *)
(* A Python dict is a sequence of [key, val] in insertion order; numbers   *)
(* are hundredths.                                                         *)
(***************************************************************************)
DictKeys(d) == [i \in 1..Len(d) |-> d[i].key]

DictHas(d, key) == \E i \in 1..Len(d) : d[i].key = key

DictGet(d, key, default) ==
    IF DictHas(d, key) THEN d[CHOOSE i \in 1..Len(d) : d[i].key = key].val ELSE default

\* d[key] += amount on a defaultdict(float)
DictAdd(d, key, amount) ==
    IF DictHas(d, key)
    THEN [i \in 1..Len(d) |-> IF d[i].key = key THEN KV(key, d[i].val + amount) ELSE d[i]]
    ELSE Append(d, KV(key, amount))

CategoryLimit == 10

\* the indices of a sequence, in order
Indices(sq) == [i \in 1..Len(sq) |-> i]

RECURSIVE RangeSum(_, _, _)
RangeSum(vals, lo, hi) ==
    IF lo > hi THEN 0
    ELSE IF lo = hi THEN vals[lo]
    ELSE RangeSum(vals, lo, (lo + hi) \div 2) + RangeSum(vals, (lo + hi) \div 2 + 1, hi)

\* the total under one key of a sequence of [key, val] entries
KeyTotal(entries, key) ==
    RangeSum([i \in 1..Len(entries) |-> IF entries[i].key = key THEN entries[i].val ELSE 0],
             1, Len(entries))

\* a defaultdict(float) after `d[key] += val` for each entry in order: the
\* keys in the order they first come, each with the sum of its values
GroupTotals(entries) ==
    LET firsts == SelectSeq(Indices(entries),
                            LAMBDA i : \A j \in 1..(i - 1) : entries[j].key # entries[i].key)
    IN [n \in 1..Len(firsts) |->
          KV(entries[firsts[n]].key, KeyTotal(entries, entries[firsts[n]].key))] \o <<>>

\* the place of each entry when the values are put in descending order,
\* entries of one value in their order in d
DescendingRank(d) ==
    [i \in 1..Len(d) |->
       1 + Cardinality({j \in 1..Len(d) :
                          d[j].val > d[i].val \/ (d[j].val = d[i].val /\ j < i)})] \o <<>>

ByRank(d, n, rank) ==
    [p \in 1..MinOf(n, Len(d)) |-> d[CHOOSE i \in 1..Len(d) : rank[i] = p].key] \o <<>>

\* Counter(d).most_common(n): the n largest values, first come first on ties
most_common(d, n) == Then(DescendingRank(d), LAMBDA rank : ByRank(d, n, rank))

_limit_categories(category_totals) ==
    IF Len(category_totals) <= CategoryLimit THEN DictKeys(category_totals)
    ELSE most_common(category_totals, CategoryLimit)

\* "label, sort_key = _format_time_bucket(...)": aichat_nlp's function returns
\* a pair; temporal_utils' returns a string, which unpacks only when it has
\* exactly two characters and raises ValueError otherwise
time_entry(eng, v, granularity, now) ==
    LET pair(b) == IF b = NoneVal THEN [k |-> "skip"] ELSE b
        unpack(text) ==
            IF Len(text) = 2 THEN Bucket(Ch(text, 1), <<Ord(Ch(text, 2))>>)
            ELSE [k |-> "raise", error |-> "ValueError"]
    IN IF eng = "aichat" THEN pair(aichat_format_time_bucket(v, granularity, now))
       ELSE unpack(_format_time_bucket(v, granularity))

BucketIndex(buckets, label) == FirstOf({i \in 1..Len(buckets) : buckets[i].label = label})

AddToBucket(buckets, label, key, amount) ==
    [i \in 1..Len(buckets) |->
        IF buckets[i].label = label
        THEN [buckets[i] EXCEPT !.values = DictAdd(@, key, amount)]
        ELSE buckets[i]]

row_get(row, key, default) == IF HasKey(row, key) THEN Get(row, key) ELSE default

\* what the loop of _aggregate_time_series reads of one row: the bucket of
\* the time cell, the key to add under and the number to add
time_row(row, a) ==
    [e |-> time_entry(a.eng, Get(row, a.time), a.granularity, a.now),
     key |-> IF Truthy(a.category) THEN row_get(row, a.category, S("Other"))
             ELSE S(IF Truthy(a.value) THEN a.value ELSE "Count"),
     numeric |-> IF Truthy(a.value) THEN _safe_float(Get(row, a.value)) ELSE Num(100)]

Amounts(counted) == [i \in 1..Len(counted) |-> KV(counted[i].key, counted[i].numeric.v)]

\* the buckets in the order they are opened, each with its totals per key
aggregate_buckets(bucketed, counted) ==
    LET opened == SelectSeq(Indices(bucketed),
                            LAMBDA i : \A j \in 1..(i - 1) :
                                          bucketed[j].e.label # bucketed[i].e.label)
    IN [n \in 1..Len(opened) |->
          [label |-> bucketed[opened[n]].e.label,
           sort |-> bucketed[opened[n]].e.sort,
           values |-> GroupTotals(Amounts(SelectSeq(counted,
                          LAMBDA r : r.e.label = bucketed[opened[n]].e.label)))]] \o <<>>

aggregate_counted(a, bucketed, counted) ==
    [k |-> "ok",
     time_buckets |-> aggregate_buckets(bucketed, counted),
     category_totals |-> IF Truthy(a.category) THEN GroupTotals(Amounts(counted)) ELSE <<>>]

\* a row whose time cell does not unpack ends the loop with the exception;
\* a row without a label is skipped; a row without a number opens its bucket
aggregate_visited(a, visited) ==
    LET raised == {i \in 1..Len(visited) : visited[i].e.k = "raise"}
    IN IF raised # {} THEN visited[SetMin(raised)].e
       ELSE Then(SelectSeq(visited, LAMBDA r : r.e.k # "skip"),
                 LAMBDA bucketed :
                    aggregate_counted(a, bucketed,
                                      SelectSeq(bucketed, LAMBDA r : r.numeric # NoneVal)))

\* _aggregate_time_series; a is [eng, time, granularity, category, value, now]
_aggregate_time_series(rows, a) ==
    Then([i \in 1..Len(rows) |-> time_row(rows[i], a)] \o <<>>,
         LAMBDA visited : aggregate_visited(a, visited))

\* the buckets of the rows, grouped by the time field at a granularity
time_groups(eng, rows, f, category, granularity, now) ==
    _aggregate_time_series(rows, [eng |-> eng, time |-> f.time, granularity |-> granularity,
                                  category |-> category, value |-> f.value, now |-> now])

RECURSIVE SeqLT(_, _)
SeqLT(a, b) ==
    IF b = <<>> THEN FALSE
    ELSE IF a = <<>> THEN TRUE
    ELSE IF Head(a) = Head(b) THEN SeqLT(Tail(a), Tail(b))
    ELSE Head(a) < Head(b)

\* the buckets left in the order in which they were opened
OpeningRank(buckets) == [i \in 1..Len(buckets) |-> i]

\* sorted(time_buckets.keys(), key=sort): stable, ascending
\* the place of each bucket when the sort keys are put in ascending order,
\* buckets of one key in the order they were opened
AscendingRank(buckets) ==
    [i \in 1..Len(buckets) |->
       1 + Cardinality({j \in 1..Len(buckets) :
                          \/ SeqLT(buckets[j].sort, buckets[i].sort)
                          \/ (j < i /\ ~SeqLT(buckets[i].sort, buckets[j].sort))})] \o <<>>

InRankOrder(items, rank) ==
    [p \in 1..Len(items) |-> items[CHOOSE i \in 1..Len(items) : rank[i] = p]] \o <<>>

\* sorted(time_buckets.keys(), key=sort): stable, ascending
sorted_buckets(buckets) ==
    Then(AscendingRank(buckets), LAMBDA rank : InRankOrder(buckets, rank))

_value_axis_label(value_field) ==
    IF Falsy(value_field) THEN "Record Count" ELSE "Sum of " \o value_field

NoMeta == [key \in {} |-> 0]

MetaIf(cond, key, val) == IF cond THEN (key :> val) ELSE NoMeta

FinalizeDefaults ==
    [axis_x |-> None, axis_y |-> None, series_field |-> None, series_values |-> NoneVal,
     legend |-> None, legend_position |-> None, sorted_labels |-> FALSE,
     time_granularity |-> None, x_scale_type |-> None, begin_at_zero |-> None]

\* _finalize_chart: the meta block; o holds the keyword arguments
_finalize_chart(chart_type, f, labels, datasets, o) ==
    LET chart(axis_labels, legend) ==
            [k |-> "chart", labels |-> labels, datasets |-> datasets,
             meta |->
                ("chartType" :> chart_type)
                @@ ("fields" :> [value |-> f.value, secondaryValue |-> f.secondary_value,
                                 category |-> f.category, time |-> f.time])
                @@ ("sortedLabels" :> o.sorted_labels)
                @@ MetaIf(DOMAIN axis_labels # {}, "axisLabels", axis_labels)
                @@ MetaIf(Truthy(o.series_field), "series",
                          ("field" :> o.series_field)
                          @@ MetaIf(o.series_values # NoneVal, "values", o.series_values))
                @@ MetaIf(Truthy(o.time_granularity), "timeGranularity", o.time_granularity)
                @@ MetaIf(Truthy(o.x_scale_type), "xScaleType", o.x_scale_type)
                @@ MetaIf(o.begin_at_zero # None, "beginAtZero", o.begin_at_zero)
                @@ ("legend" :> (("display" :> (legend = "True"))
                                 @@ MetaIf(Truthy(o.legend_position), "position",
                                           o.legend_position)))]
    IN chart(MetaIf(Truthy(o.axis_x), "x", o.axis_x) @@ MetaIf(Truthy(o.axis_y), "y", o.axis_y),
             IF o.legend # None THEN o.legend
             ELSE IF chart_type \in {"Pie", "Doughnut"} THEN "True"
             ELSE IF chart_type = "Scatter" THEN "False"
             ELSE IF Len(datasets) > 1 THEN "True" ELSE "False")

Built(chart, explanation) == [k |-> "built", chart_data |-> chart, explanation |-> explanation]

NoChart(message) == Built(NoneVal, message)

Dataset(label, data) == [label |-> label, data |-> data]

\* one point per row with the first number, the second taken as 0 when absent
scatter_points_first_only(rows, f) ==
    LET x(row) == _safe_float(Get(row, f.value))
        y(row) == _safe_float(Get(row, f.secondary_value))
        kept == SelectSeq(rows, LAMBDA row : x(row) # NoneVal)
    IN [i \in 1..Len(kept) |->
          [x |-> x(kept[i]).v, y |-> IF y(kept[i]) = NoneVal THEN 0 ELSE y(kept[i]).v]]

\* the Scatter branch: one point per row with both numbers
scatter_points(rows, f) ==
    LET usable(xs, ys) ==
            SelectSeq([i \in 1..Len(rows) |-> [x |-> xs[i], y |-> ys[i]]],
                      LAMBDA p : p.x # NoneVal /\ p.y # NoneVal)
        points(pairs) == [i \in 1..Len(pairs) |-> [x |-> pairs[i].x.v, y |-> pairs[i].y.v]]
    IN points(usable([i \in 1..Len(rows) |-> _safe_float(Get(rows[i], f.value))],
                     [i \in 1..Len(rows) |-> _safe_float(Get(rows[i], f.secondary_value))]))

scatter_chart(chart_type, rows, f) ==
    LET chart(points) ==
            IF points = <<>>
            THEN NoChart("Not enough numeric values to build a scatter plot.")
            ELSE Built(_finalize_chart(chart_type, f, <<>>,
                           <<Dataset(f.secondary_value \o " vs " \o f.value, points)>>,
                           [FinalizeDefaults EXCEPT !.axis_x = f.value,
                                                    !.axis_y = f.secondary_value,
                                                    !.legend = "False",
                                                    !.x_scale_type = "linear",
                                                    !.begin_at_zero = "False"]),
                       "scatter of " \o f.secondary_value \o " versus " \o f.value)
    IN chart(scatter_points(rows, f))

infer_granularity(eng, rows, time_field, now) ==
    IF eng = "aichat"
    THEN aichat_infer_temporal_granularity(ColumnValues(rows, time_field), now)
    ELSE _infer_temporal_granularity(ColumnValues(rows, time_field))

granularity_label(granularity) ==
    CASE granularity = "year" -> "Year"
      [] granularity = "quarter" -> "Quarter"
      [] granularity = "month" -> "Month"
      [] granularity = "date" -> "Day"
      [] OTHER -> "Time"

DailyBucketLimit == 60

\* the labels with the last bucket left out
LabelsButLast(buckets) == [i \in 1..(Len(buckets) - 1) |-> buckets[i].label]

Labels(buckets) == [i \in 1..Len(buckets) |-> buckets[i].label]

\* the Line branch: the chart of the sorted buckets
line_series(chart_type, f, granularity, agg) ==
    LET sorted == sorted_buckets(agg.time_buckets)
        limited_categories ==
            IF Truthy(f.category)
            THEN (IF agg.category_totals # <<>> THEN _limit_categories(agg.category_totals)
                  ELSE DictKeys(sorted[1].values))
            ELSE <<S(IF Truthy(f.value) THEN f.value ELSE "Count")>>
        axis_x_label == f.time \o " (" \o granularity_label(granularity) \o ")"
        axis_y_label == _value_axis_label(f.value)
    IN Built(_finalize_chart(chart_type, f, Labels(sorted),
                 [c \in 1..Len(limited_categories) |->
                    Dataset(Str(limited_categories[c]),
                            [i \in 1..Len(sorted) |->
                               DictGet(sorted[i].values, limited_categories[c], 0)])],
                 [FinalizeDefaults EXCEPT
                    !.axis_x = axis_x_label,
                    !.axis_y = axis_y_label,
                    !.series_field = f.category,
                    !.series_values =
                        IF Truthy(f.category)
                        THEN [i \in 1..Len(limited_categories) |->
                                Str(limited_categories[i])]
                        ELSE NoneVal,
                    !.sorted_labels = TRUE,
                    !.time_granularity = granularity,
                    !.x_scale_type = "category",
                    !.begin_at_zero = "True"]),
             lower(axis_y_label) \o " across " \o lower(axis_x_label))

\* the Line branch: daily buckets beyond the limit are regrouped by month
line_grouped(eng, chart_type, rows, f, now, granularity, agg) ==
    IF agg.k = "raise" THEN agg
    ELSE IF agg.time_buckets = <<>>
    THEN NoChart("Unable to interpret the requested time field.")
    ELSE IF granularity = "date" /\ Len(agg.time_buckets) > DailyBucketLimit
    THEN line_series(chart_type, f, "month",
                     time_groups(eng, rows, f, f.category, "month", now))
    ELSE line_series(chart_type, f, granularity, agg)

line_at(eng, chart_type, rows, f, now, granularity) ==
    line_grouped(eng, chart_type, rows, f, now, granularity,
                 time_groups(eng, rows, f, f.category, granularity, now))

\* the Line branch
line_chart(eng, chart_type, rows, f, now) ==
    line_at(eng, chart_type, rows, f, now, infer_granularity(eng, rows, f.time, now))

\* what the category loop reads of one row: its category and its number
category_row(row, f) ==
    [key |-> row_get(row, f.category, S("Other")),
     numeric |-> IF Truthy(f.value) THEN _safe_float(Get(row, f.value)) ELSE Num(100)]

\* totals per category value, over the rows that carry a number
category_sums(rows, f) ==
    GroupTotals(Amounts(SelectSeq([i \in 1..Len(rows) |-> category_row(rows[i], f)],
                                  LAMBDA r : r.numeric # NoneVal)))

\* the Pie/Doughnut branch and the category branch
category_chart(chart_type, rows, f) ==
    LET chart(totals, labels, label_strings, axis_y_label) ==
            Built(_finalize_chart(chart_type, f, label_strings,
                      <<Dataset(axis_y_label,
                                [i \in 1..Len(labels) |-> DictGet(totals, labels[i], 0)])>>,
                      IF chart_type \in {"Pie", "Doughnut"}
                      THEN [FinalizeDefaults EXCEPT !.series_field = f.category,
                                                    !.series_values = label_strings,
                                                    !.legend = "True",
                                                    !.legend_position = "right"]
                      ELSE [FinalizeDefaults EXCEPT !.axis_x = f.category,
                                                    !.axis_y = axis_y_label,
                                                    !.begin_at_zero = "True"]),
                  lower(axis_y_label) \o " by " \o f.category)
        labelled(totals, labels) ==
            chart(totals, labels, [i \in 1..Len(labels) |-> Str(labels[i])],
                  _value_axis_label(f.value))
        summed(totals) ==
            IF totals = <<>>
            THEN NoChart("No measurable values found for the requested fields.")
            ELSE labelled(totals, _limit_categories(totals))
    IN summed(category_sums(rows, f))

\* the branch for a time field without a category, outside Line
time_series(chart_type, f, granularity, agg) ==
    LET sorted == sorted_buckets(agg.time_buckets)
        value_key == S(IF Truthy(f.value) THEN f.value ELSE "Count")
        axis_x_label == f.time \o " (" \o granularity_label(granularity) \o ")"
        axis_y_label == _value_axis_label(f.value)
    IN IF agg.k = "raise" THEN agg
       ELSE IF agg.time_buckets = <<>>
       THEN NoChart("Unable to build a chart with the requested fields.")
       ELSE Built(_finalize_chart(chart_type, f, Labels(sorted),
                      <<Dataset(axis_y_label,
                                [i \in 1..Len(sorted) |->
                                   DictGet(sorted[i].values, value_key, 0)])>>,
                      [FinalizeDefaults EXCEPT
                         !.axis_x = axis_x_label,
                         !.axis_y = axis_y_label,
                         !.sorted_labels = TRUE,
                         !.time_granularity = granularity,
                         !.x_scale_type = "category",
                         !.begin_at_zero = "True"]),
                  lower(axis_y_label) \o " by " \o lower(axis_x_label))

time_at(eng, chart_type, rows, f, now, granularity) ==
    time_series(chart_type, f, granularity,
                time_groups(eng, rows, f, None, granularity, now))

time_chart(eng, chart_type, rows, f, now) ==
    time_at(eng, chart_type, rows, f, now, infer_granularity(eng, rows, f.time, now))

\* int(n ** 0.5)
RECURSIVE isqrt(_, _)
isqrt(n, r) == IF (r + 1) * (r + 1) > n THEN r ELSE isqrt(n, r + 1)

HistogramMinBins == 3

HistogramMaxBins == 10

histogram_bins(count) ==
    LET capped(atLeast) == IF atLeast > HistogramMaxBins THEN HistogramMaxBins ELSE atLeast
        floored(root) == capped(IF root < HistogramMinBins THEN HistogramMinBins ELSE root)
    IN floored(isqrt(count, 0))

\* values.sort(), ascending
sort_numbers(values) ==
    Then([i \in 1..Len(values) |->
            1 + Cardinality({j \in 1..Len(values) :
                               values[j] < values[i] \/ (values[j] = values[i] /\ j < i)})]
           \o <<>>,
         LAMBDA rank : InRankOrder(values, rank))

\* round(n / d, 2) for n / d in hundredths: nearest, ties to even
round_half_even(n, d) ==
    LET floor == n \div d
        rest == n - floor * d
    IN IF 2 * rest < d THEN floor
       ELSE IF 2 * rest > d THEN floor + 1
       ELSE IF floor % 2 = 0 THEN floor ELSE floor + 1

\* str(float) of a number of hundredths
float_str(h) ==
    LET digits(frac) == IF frac % 10 = 0 THEN DigitsOf(frac \div 10) ELSE Pad2(frac)
    IN (IF h < 0 THEN "-" ELSE "") \o DigitsOf(Abs(h) \div 100) \o "."
       \o digits(Abs(h) % 100)

\* an index that is not held below the number of bins
histogram_index_unclamped(v, bins, min_val, max_val) ==
    ((v - min_val) * bins) \div (max_val - min_val)

\* min(int((value - min_val) / step), bins - 1) with step = (max_val - min_val) / bins
histogram_index(v, bins, min_val, max_val) ==
    MinOf(((v - min_val) * bins) \div (max_val - min_val), bins - 1)

\* the histogram branch; "--" stands for the dash the source puts between edges
histogram_chart(chart_type, rows, f) ==
    LET chart(labels, frequencies) ==
            Built(_finalize_chart(chart_type, f, labels, <<Dataset(f.value, frequencies)>>,
                                  [FinalizeDefaults EXCEPT !.axis_x = f.value,
                                                           !.axis_y = "Frequency",
                                                           !.legend = "False",
                                                           !.begin_at_zero = "True"]),
                  "distribution of " \o f.value)
        binned(values, bins, min_val, max_val) ==
            LET index(v) == histogram_index(v, bins, min_val, max_val)
                edge(i) == float_str(round_half_even(min_val * bins + i * (max_val - min_val),
                                                     bins))
            IN IF min_val = max_val THEN chart(<<float_str(min_val)>>, <<100 * Len(values)>>)
               ELSE chart([i \in 1..bins |-> edge(i - 1) \o "--" \o edge(i)],
                          [i \in 1..bins |->
                             100 * Cardinality({j \in 1..Len(values) :
                                                  index(values[j]) = i - 1})])
        sorted(values) ==
            IF values = <<>>
            THEN NoChart("No numeric values available for the requested field.")
            ELSE binned(values, histogram_bins(Len(values)), values[1], values[Len(values)])
        numeric(cells) ==
            sorted(sort_numbers([i \in 1..Len(cells) |-> cells[i].v]))
    IN numeric(SelectSeq([i \in 1..Len(rows) |-> _safe_float(Get(rows[i], f.value))],
                         LAMBDA cell : cell # NoneVal))

\* _build_chart_data: the branches in the order of the source
_build_chart_data(eng, chart_type, rows, f, now) ==
    IF rows = <<>> THEN NoChart("No data available to build a chart.")
    ELSE IF chart_type = "Scatter" /\ Truthy(f.value) /\ Truthy(f.secondary_value)
    THEN scatter_chart(chart_type, rows, f)
    ELSE IF chart_type = "Line" /\ Truthy(f.time)
    THEN line_chart(eng, chart_type, rows, f, now)
    ELSE IF Truthy(f.category) THEN category_chart(chart_type, rows, f)
    ELSE IF Truthy(f.time) THEN time_chart(eng, chart_type, rows, f, now)
    ELSE IF Truthy(f.value) THEN histogram_chart(chart_type, rows, f)
    ELSE NoChart("Unable to determine appropriate fields for charting.")

\* build_chart_response: the triple (chart_data, explanation, filtered_dataset),
\* or the exception that leaves it
chart_triple(filtered_dataset, result) ==
    IF result.k = "raise" THEN result
    ELSE [k |-> "tuple", chart_data |-> result.chart_data,
          explanation |-> result.explanation, filtered_dataset |-> filtered_dataset]

build_filtered(eng, filtered_dataset, interpreted, now) ==
    chart_triple(filtered_dataset,
                 _build_chart_data(eng, interpreted.chart_type, filtered_dataset,
                                   interpreted.fields, now))

build_chart_response(eng, rows, interpreted, now) ==
    Then(_apply_filters(rows, interpreted.filters),
         LAMBDA filtered_dataset : build_filtered(eng, filtered_dataset, interpreted, now))

(***************************************************************************)
(* json.loads on the JSON texts the model's payloads hold: null, integers, *)
(* strings without escapes, arrays and objects.  A result is               *)
(* [ok, val, next]; ok = FALSE stands for JSONDecodeError.                 *)
(***************************************************************************)
JsonFail == [ok |-> FALSE]

JsonOk(val, next) == [ok |-> TRUE, val |-> val, next |-> next]

Quote == "\""

NextQuote(s, i) == FirstOf({j \in i..Len(s) : Ch(s, j) = Quote})

RECURSIVE json_value(_, _)
RECURSIVE json_items(_, _, _)
RECURSIVE json_members(_, _, _)
json_value(s, i) ==
    LET string(start, close) ==
            IF close = 0 THEN JsonFail
            ELSE JsonOk(S(SubSeq(s, start, close - 1)), close + 1)
        number(sign, digitsAt, e) ==
            IF (e <= Len(s) /\ Ch(s, e) \in {".", "e", "E"})
               \/ (e - digitsAt > 1 /\ Ch(s, digitsAt) = "0")
            THEN JsonFail
            ELSE JsonOk(I(sign * ToInt(SubSeq(s, digitsAt, e - 1))), e)
        array(j, inner) ==
            IF inner <= Len(s) /\ Ch(s, inner) = "]" THEN JsonOk(L(<<>>), inner + 1)
            ELSE json_items(s, j + 1, <<>>)
        object(j, inner) ==
            IF inner <= Len(s) /\ Ch(s, inner) = "}" THEN JsonOk(D(<<>>), inner + 1)
            ELSE json_members(s, j + 1, <<>>)
        token(j, c, digitsAt, e) ==
            IF c = "" THEN JsonFail
            ELSE IF StartsAt(s, "null", j) THEN JsonOk(Null, j + 4)
            ELSE IF c = Quote THEN string(j + 1, NextQuote(s, j + 1))
            ELSE IF e > digitsAt THEN number(IF c = "-" THEN -1 ELSE 1, digitsAt, e)
            ELSE IF c = "[" THEN array(j, SkipWs(s, j + 1))
            ELSE IF c = "{" THEN object(j, SkipWs(s, j + 1))
            ELSE JsonFail
        digits(j, c, digitsAt) == token(j, c, digitsAt, DigitRunEnd(s, digitsAt))
        first(j, c) == digits(j, c, IF c = "-" THEN j + 1 ELSE j)
        at(j) == first(j, IF j <= Len(s) THEN Ch(s, j) ELSE "")
    IN at(SkipWs(s, i))

json_items(s, i, acc) ==
    LET separator(item, j) ==
            IF ~item.ok \/ j > Len(s) THEN JsonFail
            ELSE IF Ch(s, j) = "," THEN json_items(s, j + 1, Append(acc, item.val))
            ELSE IF Ch(s, j) = "]" THEN JsonOk(L(Append(acc, item.val)), j + 1)
            ELSE JsonFail
        after(item) == separator(item, IF item.ok THEN SkipWs(s, item.next) ELSE 0)
    IN after(json_value(s, i))

json_members(s, i, acc) ==
    LET separator(key, val, j) ==
            IF ~val.ok \/ j > Len(s) THEN JsonFail
            ELSE IF Ch(s, j) = ","
            THEN json_members(s, j + 1, Append(acc, KV(key.val.s, val.val)))
            ELSE IF Ch(s, j) = "}"
            THEN JsonOk(D(Append(acc, KV(key.val.s, val.val))), j + 1)
            ELSE JsonFail
        member(key, val) == separator(key, val, IF val.ok THEN SkipWs(s, val.next) ELSE 0)
        value(key, colon) ==
            member(key, IF key.ok /\ key.val.k = "str" /\ colon <= Len(s)
                           /\ Ch(s, colon) = ":"
                        THEN json_value(s, colon + 1) ELSE JsonFail)
        named(key) == value(key, IF key.ok THEN SkipWs(s, key.next) ELSE 0)
    IN named(json_value(s, i))

json_loads(text) ==
    LET whole(r) == IF r.ok /\ SkipWs(text, r.next) > Len(text) THEN r ELSE JsonFail
    IN whole(json_value(text, 1))

(***************************************************************************)
(* extract_dataset (aichat_nlp.py and nlp_engine/nlp_extraction.py).       *)
(***************************************************************************)
WrapperKeys == <<"cleanedData", "uploadedData", "rows", "data", "preview">>

\* all(isinstance(row, dict) for row in dataset_obj)
AllDicts(items) == \A i \in 1..Len(items) : items[i].k = "dict"

\* list(dataset_obj.values())
DictValues(obj) ==
    LET values(keys) == [i \in 1..Len(keys) |-> Get(obj, keys[i])]
    IN values(ordered_keys(obj.items, <<>>))

\* the records of a list, whatever else the list holds
extract_records_of_list(eng, dataset_obj) ==
    IF dataset_obj.k = "list"
    THEN SelectSeq(dataset_obj.items, LAMBDA row : row.k = "dict")
    ELSE <<>>

RECURSIVE extract_dataset(_, _)
RECURSIVE first_extracted(_, _, _)
\* the first key of keys, present in obj, under which a non-empty dataset lies
first_extracted(eng, obj, keys) ==
    LET or_next(extracted) ==
            IF extracted # <<>> THEN extracted ELSE first_extracted(eng, obj, Tail(keys))
    IN IF keys = <<>> THEN <<>>
       ELSE or_next(IF HasKey(obj, Head(keys))
                    THEN extract_dataset(eng, Get(obj, Head(keys))) ELSE <<>>)

extract_dataset(eng, dataset_obj) ==
    LET decoded(r) == IF r.ok THEN extract_dataset(eng, r.val) ELSE <<>>
        records(values) == IF values # <<>> /\ AllDicts(values) THEN values ELSE <<>>
        wrapped(found) == IF found # <<>> THEN found ELSE records(DictValues(dataset_obj))
    IN CASE dataset_obj.k = "null" -> <<>>
         [] dataset_obj.k = "str" -> decoded(json_loads(dataset_obj.s))
         [] dataset_obj.k = "list" ->
              IF AllDicts(dataset_obj.items) THEN dataset_obj.items ELSE <<>>
         [] dataset_obj.k = "dict" ->
              IF eng = "aichat" /\ HasKey(dataset_obj, "data_preview")
              THEN extract_dataset(eng, Get(dataset_obj, "data_preview"))
              ELSE wrapped(first_extracted(eng, dataset_obj,
                                           IF eng = "aichat" THEN WrapperKeys
                                           ELSE <<"data_preview">> \o WrapperKeys))
         [] OTHER -> <<>>

(***************************************************************************)
(* The /api/nlp/chart handler (nlp_routes.py), which imports the pipeline  *)
(* of aichat_nlp.py.                                                       *)
(***************************************************************************)
NotRun == [k |-> "not_run"]

JsonFalsy(v) == v \in {Null, I(0), S(""), L(<<>>), D(<<>>)}

ErrorResponse(status, message) ==
    [status |-> status, error |-> message, intent |-> None, chartType |-> None,
     chartData |-> NoneVal]

SuccessResponse(intent, chart_type, chart_payload) ==
    [status |-> 200, error |-> None, intent |-> intent, chartType |-> chart_type,
     chartData |-> chart_payload]

Outcome(q, rows, cols, interpreted, chart_response, resp) ==
    [query |-> q, dataset |-> rows, columns |-> cols, interp |-> interpreted,
     built |-> chart_response, response |-> resp]

\* lines 56-98: what the handler does with the value build_chart_response
\* returned; only a dict has .get, on anything else the call raises
assemble_response(interpreted, chart_response) ==
    LET respond(chart_data, chart_type) ==
            IF JsonFalsy(Get(chart_data, "datasets"))
            THEN [ErrorResponse(422, "Could not generate a chart for the given request.")
                    EXCEPT !.intent = interpreted.intent]
            ELSE SuccessResponse(interpreted.intent, chart_type, chart_data)
        read(chart_data, chart_type) ==
            respond(IF JsonFalsy(chart_data) THEN D(<<>>) ELSE chart_data,
                    IF JsonFalsy(chart_type) THEN interpreted.chart_type ELSE chart_type.s)
    IN IF chart_response.k # "dict"
       THEN ErrorResponse(500, "Failed to generate chart: 'tuple' object has no attribute 'get'")
       ELSE read(Get(chart_response, "chartData"), Get(chart_response, "chartType"))

\* generate_chart_from_nlp, lines 52-98: the response to the builder's result
respond_built(q, rows, cols, interpreted, chart_response) ==
    IF chart_response.k = "raise"
    THEN Outcome(q, rows, cols, interpreted, chart_response,
                 ErrorResponse(500, "Failed to generate chart: " \o chart_response.error))
    ELSE Outcome(q, rows, cols, interpreted, chart_response,
                 assemble_response(interpreted, chart_response))

\* line 52: build_chart_response(dataset, interpretation)
respond_interpreted(q, rows, cols, interpreted, now) ==
    Then(build_chart_response("aichat", rows, interpreted, now),
         LAMBDA chart_response : respond_built(q, rows, cols, interpreted, chart_response))

\* lines 42-50: the columns check and interpret_nl_query(query, columns)
respond_columns(q, rows, cols, now) ==
    IF cols = <<>>
    THEN Outcome(q, rows, cols, NotRun, NotRun,
                 ErrorResponse(400, "Unable to inspect dataset columns."))
    ELSE IF aichat_score_raises(q)
    THEN Outcome(q, rows, cols, NotRun, NotRun,
                 ErrorResponse(500, "Failed to generate chart: 'tuple' object has no attribute 'lower'"))
    ELSE Then(interpretation("aichat", q, cols),
              LAMBDA interpreted : respond_interpreted(q, rows, cols, interpreted, now))

\* lines 34-42: the dataset check and analyse_columns(dataset)
respond_dataset(q, rows, now) ==
    IF rows = <<>>
    THEN Outcome(q, rows, NotRun, NotRun, NotRun,
                 ErrorResponse(400, "A valid dataset is required to build a chart."))
    ELSE Then(analyse_columns(rows, now), LAMBDA cols : respond_columns(q, rows, cols, now))

\* the handler without the check of the query at lines 25-26
respond_query_unchecked(body, q, now) ==
    IF q = None
    THEN Outcome(None, NotRun, NotRun, NotRun, NotRun,
                 ErrorResponse(500, "Failed to generate chart: object has no attribute 'strip'"))
    ELSE Then(extract_dataset("aichat", Get(body, "dataset")),
              LAMBDA rows : respond_dataset(q, rows, now))

\* lines 24-33: the query check and extract_dataset(dataset_payload)
respond_query(body, q, now) ==
    IF q = None
    THEN Outcome(None, NotRun, NotRun, NotRun, NotRun,
                 ErrorResponse(500, "Failed to generate chart: object has no attribute 'strip'"))
    ELSE IF q = ""
    THEN Outcome(q, NotRun, NotRun, NotRun, NotRun,
                 ErrorResponse(400, "A natural language query is required."))
    ELSE Then(extract_dataset("aichat", Get(body, "dataset")),
              LAMBDA rows : respond_dataset(q, rows, now))

\* lines 21-23: payload.get("query") of the JSON body
respond_body(body, now) ==
    LET raw == IF body.k = "dict" THEN Get(body, "query") ELSE Null
    IN IF body.k # "dict"
       THEN Outcome(None, NotRun, NotRun, NotRun, NotRun,
                    ErrorResponse(500, "Failed to generate chart: object has no attribute 'get'"))
       ELSE respond_query(body, IF JsonFalsy(raw) THEN ""
                                ELSE IF raw.k = "str" THEN strip(raw.s) ELSE None,
                          now)

\* generate_chart_from_nlp
generate_chart_from_nlp(request_json, now) ==
    respond_body(IF JsonFalsy(request_json) THEN D(<<>>) ELSE request_json, now)

(***************************************************************************)
(* The requests the model submits: datasets and queries.                   *)
(***************************************************************************)
Row(pairs) == D([i \in 1..Len(pairs) |-> KV(pairs[i][1], pairs[i][2])])

SalesRows ==
    L(<<Row(<<<<"Region", S("North")>>, <<"Revenue", S("$120")>>, <<"Date", S("2023-01-05")>>>>),
        Row(<<<<"Region", S("South")>>, <<"Revenue", S("$80.5")>>, <<"Date", S("2023-02-11")>>>>),
        Row(<<<<"Region", S("North")>>, <<"Revenue", S("$40")>>, <<"Date", S("2023-02-20")>>>>)>>)

RegionRows ==
    L(<<Row(<<<<"Region", S("North")>>, <<"Revenue", S("$120")>>>>),
        Row(<<<<"Region", S("South")>>, <<"Revenue", S("$80")>>>>)>>)

PriceRows ==
    L(<<Row(<<<<"amount", S("$10")>>, <<"price", S("$3")>>>>),
        Row(<<<<"amount", S("$20")>>, <<"price", S("$4.25")>>>>),
        Row(<<<<"amount", S("$30")>>, <<"price", S("n/a")>>>>)>>)

OnlineRows ==
    L(<<Row(<<<<"Region", S("North")>>, <<"Online Sales", S("$120")>>>>),
        Row(<<<<"Region", S("South")>>, <<"Online Sales", S("$80")>>>>)>>)

ScoreRows ==
    L(<<Row(<<<<"Region", S("North")>>, <<"Score", I(31)>>>>),
        Row(<<<<"Region", S("South")>>, <<"Score", I(30)>>>>),
        Row(<<<<"Region", S("East")>>, <<"Score", I(29)>>>>)>>)

PreviewText ==
    S("{\"data_preview\": [{\"Region\": \"North\", \"Revenue\": \"$120\"}, {\"Region\": \"South\", \"Revenue\": 15000}]}")

Request(q, obj) == D(<<KV("query", S(q)), KV("dataset", obj)>>)

Payloads ==
    { Request("pie chart of revenue trend by region", SalesRows),
      Request("Dimension: Date; Time: Date; Value: Revenue", SalesRows),
      Request("Chart: Bar; Value: COUNT; Dimension: Region", RegionRows),
      Request("Chart: Bar; Value: Revenue; Dimension: Region", RegionRows),
      Request("Time: amt; scatter", PriceRows),
      Request("plot amount against price", PriceRows),
      Request("histogram of amount", PriceRows),
      Request("Chart: Pie; Value: Online Sales; Dimension: Region", OnlineRows),
      Request("sum of score by region", ScoreRows),
      Request("revenue by region", PreviewText),
      Request("   ", RegionRows),
      Request("revenue by region", L(<<>>)),
      Request("revenue by region", D(<<KV("rows", L(<<I(1), I(2)>>))>>)),
      Request("revenue by region", L(<<D(<<>>)>>)) }

Engines == {"aichat", "nlp_engine"}

\* the dates the clock shows, in order
Clocks == <<Date(2026, 1, 31), Date(2026, 2, 1)>>

MaxRuns == 2

(***************************************************************************)
(* The state machine.  A request is served either by the route handler     *)
(* (engine "aichat") or by the calls of the nlp_engine package, made in    *)
(* the handler's order.                                                    *)
(***************************************************************************)
Cleared ==
    /\ query' = None
    /\ dataset' = NotRun
    /\ columns' = NotRun
    /\ fields' = NotRun
    /\ interp' = NotRun
    /\ built' = NotRun
    /\ response' = NotRun

Init ==
    /\ engine = "aichat"
    /\ payload = Null
    /\ today = Clocks[1]
    /\ pc = "idle"
    /\ query = None
    /\ dataset = NotRun
    /\ columns = NotRun
    /\ fields = NotRun
    /\ interp = NotRun
    /\ built = NotRun
    /\ response = NotRun
    /\ run = 0
    /\ firstOut = NotRun
    /\ uploaded_df = NoneVal
    /\ cleaned_data = NoneVal

\* a request arrives
Receive ==
    /\ pc = "idle"
    /\ run < MaxRuns
    /\ \E p \in Payloads, e \in Engines :
          /\ payload' = p
          /\ engine' = e
    /\ pc' = "received"
    /\ Cleared
    /\ UNCHANGED <<today, run, firstOut, uploaded_df, cleaned_data>>

\* the clock moves on to the next date
Tick ==
    /\ \E i \in 1..(Len(Clocks) - 1) : today = Clocks[i] /\ today' = Clocks[i + 1]
    /\ UNCHANGED <<engine, query, payload, pc, dataset, columns, fields, interp, built,
                   response, run, firstOut, uploaded_df, cleaned_data>>

\* POST /api/nlp/chart
HandleRequest ==
    /\ pc = "received"
    /\ engine = "aichat"
    /\ \E out \in {generate_chart_from_nlp(payload, today)} :
          /\ query' = out.query
          /\ dataset' = out.dataset
          /\ columns' = out.columns
          /\ interp' = out.interp
          /\ fields' = IF out.interp = NotRun THEN NotRun ELSE out.interp.fields
          /\ built' = out.built
          /\ response' = out.response
    /\ pc' = "done"
    /\ UNCHANGED <<engine, payload, today, run, firstOut, uploaded_df, cleaned_data>>

\* the query text a caller of the nlp_engine package passes on
query_text(request_json) ==
    LET text(raw) == IF raw.k = "str" THEN raw.s ELSE ""
    IN text(Get(request_json, "query"))

\* nlp_extraction.extract_dataset(dataset_obj)
ExtractDataset ==
    /\ pc = "received"
    /\ engine = "nlp_engine"
    /\ query' = query_text(payload)
    /\ dataset' = extract_dataset(engine, Get(payload, "dataset"))
    /\ pc' = "extracted"
    /\ UNCHANGED <<engine, payload, today, columns, fields, interp, built, response, run,
                   firstOut, uploaded_df, cleaned_data>>

\* nlp_extraction.analyse_columns(dataset)
AnalyseColumns ==
    /\ pc = "extracted"
    /\ columns' = analyse_columns(dataset, today)
    /\ pc' = "analysed"
    /\ UNCHANGED <<engine, query, payload, today, dataset, fields, interp, built, response,
                   run, firstOut, uploaded_df, cleaned_data>>

\* interpret_nl_query, lines 488-571: directives, dimension, mentions, best
\* matches, time
AssignFields ==
    /\ pc = "analysed"
    /\ fields' = assigned_fields(engine, query, columns,
                                 ScoreTable(engine, query, columns),
                                 MentionedColumns(engine, query, columns))
    /\ pc' = "assigned"
    /\ UNCHANGED <<engine, query, payload, today, dataset, columns, interp, built, response,
                   run, firstOut, uploaded_df, cleaned_data>>

\* lines 574-599: the explicit line fallback and the trend rule
ApplyTrendRules ==
    /\ pc = "assigned"
    /\ fields' = drop_category_on_trend(query, explicit_line_fallback(query, columns, fields))
    /\ pc' = "trend_applied"
    /\ UNCHANGED <<engine, query, payload, today, dataset, columns, interp, built, response,
                   run, firstOut, uploaded_df, cleaned_data>>

\* lines 602-606
ResolveConflicts ==
    /\ pc = "trend_applied"
    /\ fields' = resolve_conflicts(columns, fields)
    /\ pc' = "conflicts_resolved"
    /\ UNCHANGED <<engine, query, payload, today, dataset, columns, interp, built, response,
                   run, firstOut, uploaded_df, cleaned_data>>

\* lines 609-629
ChooseScatterAxes ==
    /\ pc = "conflicts_resolved"
    /\ fields' = clear_secondary(scatter_axes(ScoreTable(engine, query, columns), query,
                                              columns, fields))
    /\ pc' = "axes_chosen"
    /\ UNCHANGED <<engine, query, payload, today, dataset, columns, interp, built, response,
                   run, firstOut, uploaded_df, cleaned_data>>

\* lines 632-669: chart type, filters and the returned interpretation
ReturnInterpretation ==
    /\ pc = "axes_chosen"
    /\ interp' = [intent |-> _detect_visual_intent(query),
                  chart_type |-> final_chart_type(engine, query, columns, fields),
                  fields |-> fields,
                  filters |-> _parse_filters(engine, _parse_directives(query).filter, columns)]
    /\ pc' = "interpreted"
    /\ UNCHANGED <<engine, query, payload, today, dataset, columns, fields, built, response,
                   run, firstOut, uploaded_df, cleaned_data>>

\* chart_builder.build_chart_response(dataset, interpretation)
BuildChart ==
    /\ pc = "interpreted"
    /\ built' = build_chart_response(engine, dataset, interp, today)
    /\ pc' = "done"
    /\ UNCHANGED <<engine, query, payload, today, dataset, columns, fields, interp, response,
                   run, firstOut, uploaded_df, cleaned_data>>

\* the request is over; the outcome of the first one is kept for comparison
Finish ==
    /\ pc = "done"
    /\ pc' = "idle"
    /\ run' = run + 1
    /\ firstOut' = IF firstOut = NotRun
                   THEN [engine |-> engine, payload |-> payload, interp |-> interp,
                         built |-> built, response |-> response]
                   ELSE firstOut
    /\ UNCHANGED <<engine, query, payload, today, dataset, columns, fields, interp, built,
                   response, uploaded_df, cleaned_data>>

Next ==
    \/ Receive
    \/ Tick
    \/ HandleRequest
    \/ ExtractDataset
    \/ AnalyseColumns
    \/ AssignFields
    \/ ApplyTrendRules
    \/ ResolveConflicts
    \/ ChooseScatterAxes
    \/ ReturnInterpretation
    \/ BuildChart
    \/ Finish

Spec == Init /\ [][Next]_vars

(***************************************************************************)
(* The properties.                                                         *)
(***************************************************************************)
HandlerDone == pc = "done" /\ engine = "aichat"

PackageDone == pc = "done" /\ engine = "nlp_engine"

\* extract_dataset has run for the request at hand
Extracted ==
    /\ pc \notin {"idle", "received"}
    /\ engine = "aichat" => query \notin {None, ""}

NoRecords == Extracted /\ dataset = <<>>

SomeRecords == Extracted /\ dataset # <<>>

\* build_chart_response returned a chart with at least one dataset
ChartBuilt ==
    /\ built.k = "tuple"
    /\ built.chart_data # NoneVal
    /\ built.chart_data.datasets # <<>>

\* C1: a request with a non-empty query and at least one record, for which
\* the builder produced a chart with a dataset, gets the success payload
\* (status 200 with intent, chartType and chartData) and no error status.
C1_SuccessWhenChartBuilt ==
    (HandlerDone /\ query \notin {None, ""} /\ SomeRecords /\ ChartBuilt)
        => /\ response.status = 200
           /\ response.error = None
           /\ response.chartData # NoneVal

\* C2: an empty or whitespace-only query, or a dataset that normalizes to
\* [], gets an error response without chartData from the endpoint, and no
\* chart-building step has run; _build_chart_data itself gives no chart for
\* an empty dataset.
C2_EmptyInputIsError ==
    /\ (HandlerDone /\ (query = "" \/ NoRecords))
          => /\ response.status >= 400
             /\ response.error # None
             /\ response.chartData = NoneVal
             /\ built = NotRun
    /\ (PackageDone /\ NoRecords)
          => /\ built.k = "tuple"
             /\ built.chart_data = NoneVal

\* a request with a blank query over a non-empty dataset was refused
C2_BlankQueryRefused ==
    /\ HandlerDone
    /\ query = ""
    /\ Get(payload, "dataset") = RegionRows
    /\ response.status = 400
    /\ built = NotRun

\* C3: over a non-empty dataset build_chart_response ends with a chart or
\* with (None, message) and never raises, the time-bucket paths included.
C3_BuilderNeverRaises ==
    (pc = "done" /\ SomeRecords /\ built # NotRun) => built.k # "raise"

\* C4: the same request (same engine, same payload) served again, whatever
\* was served and whatever time passed in between, gives the interpretation
\* and the chart output of its first run.
C4_SameRequestSameOutput ==
    (pc = "done" /\ firstOut # NotRun /\ engine = firstOut.engine
        /\ payload = firstOut.payload)
        => /\ interp = firstOut.interp
           /\ built = firstOut.built

HasChart == built.k = "tuple" /\ built.chart_data # NoneVal

\* labels and every dataset's data have one length
Parallel(chart) ==
    \A i \in 1..Len(chart.datasets) : Len(chart.datasets[i].data) = Len(chart.labels)

\* the Scatter branch of _build_chart_data is the one that built the chart
ScatterBranch ==
    /\ interp.chart_type = "Scatter"
    /\ Truthy(interp.fields.value)
    /\ Truthy(interp.fields.secondary_value)

C6_ValueDiffersFromTime ==
    interp # NotRun
        => ~(/\ Truthy(interp.fields.value)
             /\ Truthy(interp.fields.time)
             /\ interp.fields.value = interp.fields.time)

\* the fields as they stand before the conflict step (lines 488-599)
FieldsBeforeConflicts ==
    drop_category_on_trend(query,
        explicit_line_fallback(query, columns,
            assigned_fields(engine, query, columns, ScoreTable(engine, query, columns),
                            MentionedColumns(engine, query, columns))))

\* C7: in the interpretation returned, category and time, when both
\* resolved, name different columns; when resolution picked one column for
\* both, the conflict step drops category and keeps time.
C7_CategoryDiffersFromTime ==
    /\ interp # NotRun
          => ~(/\ Truthy(interp.fields.category)
               /\ Truthy(interp.fields.time)
               /\ interp.fields.category = interp.fields.time)
    /\ (pc = "conflicts_resolved" /\ Truthy(FieldsBeforeConflicts.time)
          /\ FieldsBeforeConflicts.category = FieldsBeforeConflicts.time)
          => /\ fields.category = None
             /\ fields.time = FieldsBeforeConflicts.time

\* directives named one column as dimension and as time, and category went
C7_SameColumnForBoth ==
    /\ pc = "conflicts_resolved"
    /\ FieldsBeforeConflicts.category = "Date"
    /\ FieldsBeforeConflicts.time = "Date"
    /\ fields.category = None
    /\ fields.time = "Date"

\* C8: a query holding an explicit multi-word chart phrase is interpreted
\* with that phrase's chart type, whatever else it holds.
C8_ExplicitPhraseForcesType ==
    interp # NotRun
        => \A i \in 1..Len(ExplicitPhrases) :
              Contains(lower(query), ExplicitPhrases[i][1])
                  => interp.chart_type = ExplicitPhrases[i][2]

ChartTypes == {"Bar", "Line", "Pie", "Doughnut", "Scatter", "Histogram"}

\* C9: a `Chart: <type>` directive naming one of the chart types makes the
\* interpretation's chart_type that type.
C9_ChartDirectiveForcesType ==
    (interp # NotRun /\ _parse_directives(query).chart # <<>>
        /\ _parse_directives(query).chart[1] \in ChartTypes)
        => interp.chart_type = _parse_directives(query).chart[1]

\* C10: a Value directive reading count, records or rows, in any case,
\* leaves fields.value of the interpretation unset.
C10_CountDirectiveLeavesValueUnset ==
    (interp # NotRun /\ _parse_directives(query).value # <<>>
        /\ lower(strip(_parse_directives(query).value[1])) \in CountWords)
        => interp.fields.value = None

(***************************************************************************)
(* Datasets and interpretations handed to build_chart_response directly.   *)
(***************************************************************************)
\* the n-th day from 2024-01-01 on, as text
DayText(n) ==
    CASE n <= 31 -> "2024-01-" \o Pad2(n)
      [] n <= 60 -> "2024-02-" \o Pad2(n - 31)
      [] OTHER -> "2024-03-" \o Pad2(n - 60)

\* one row per day, n days
DailyRows(n) ==
    [i \in 1..n |-> Row(<<<<"Date", S(DayText(i))>>, <<"Revenue", I(i)>>>>)] \o <<>>

Fields(value, secondary_value, category, time) ==
    [value |-> value, secondary_value |-> secondary_value, category |-> category,
     time |-> time]

Interpreted(chart_type, f, filters) ==
    [intent |-> "visualize", chart_type |-> chart_type, fields |-> f, filters |-> filters]

MaxValues == 16

\* n rows with the amounts 1..n
HistRows(n) == [i \in 1..n |-> Row(<<<<"amount", I(i)>>>>)] \o <<>>

\* amounts that are equal, missing, null or without a number
MixedRows ==
    <<Row(<<<<"amount", S("7")>>, <<"price", I(2)>>>>),
      Row(<<<<"amount", S("n/a")>>, <<"price", I(3)>>>>),
      Row(<<<<"amount", Null>>, <<"price", I(4)>>>>),
      Row(<<<<"price", S("$5.50")>>>>),
      Row(<<<<"amount", S("7.0")>>, <<"price", S("none")>>>>)>>

\* no row holds both numbers
ApartRows ==
    <<Row(<<<<"amount", I(1)>>, <<"price", Null>>>>),
      Row(<<<<"amount", S("n/a")>>, <<"price", I(3)>>>>)>>

CategoryName(i) == "zone" \o Ch(UpperAlphabet, i)

\* the total of the i-th category: one negative total, equal totals among the
\* first categories
CategoryAmount(i) == IF i = 5 THEN -50 ELSE IF i <= 3 THEN 1 ELSE i

\* n categories, one row each, then a second row for the first two
CategoryRows(n) ==
    [i \in 1..(n + 2) |->
       IF i <= n
       THEN Row(<<<<"Region", S(CategoryName(i))>>, <<"Revenue", I(CategoryAmount(i))>>,
                  <<"Date", S(DayText(1 + (i % 2)))>>>>)
       ELSE Row(<<<<"Region", S(CategoryName(i - n))>>, <<"Revenue", I(10)>>,
                  <<"Date", S(DayText(3))>>>>)] \o <<>>

\* rows to filter: a blank-padded text, a text without a number, null and
\* missing cells
FilterRows ==
    <<Row(<<<<"Region", S("North")>>, <<"Revenue", S("$120")>>>>),
      Row(<<<<"Region", S(" South ")>>, <<"Revenue", S("n/a")>>>>),
      Row(<<<<"Region", Null>>, <<"Revenue", I(80)>>>>),
      Row(<<<<"Revenue", I(50)>>>>),
      Row(<<<<"Region", S("East")>>, <<"Revenue", Null>>>>),
      Row(<<<<"Region", I(80)>>, <<"Revenue", S("80")>>>>)>>

Operators == {"=", "!=", ">", "<", ">=", "<="}

Filter(column, operator, value) ==
    [column |-> column, operator |-> operator, value |-> value, raw |-> ""]

FilterLists ==
    {<<>>}
    \cup {<<Filter("Revenue", op, Num(8000))>> : op \in Operators}
    \cup {<<Filter("Region", op, S("North"))>> : op \in Operators}
    \cup {<<Filter("Region", op, S("East"))>> : op \in Operators}
    \cup {<<Filter("Revenue", op, Num(5000)), Filter("Region", "!=", S("North"))>> :
             op \in Operators}

Case(rows, chart_type, f, filters) ==
    [rows |-> rows, interp |-> Interpreted(chart_type, f, filters)]

FieldChoices ==
    {Fields(v, s, c, t) : v \in {None, "Revenue"}, s \in {None, "Revenue"},
                          c \in {None, "Region"}, t \in {None, "Date"}}

BuilderCases ==
    {Case(HistRows(n), "Histogram", Fields("amount", None, None, None), <<>>) :
        n \in 1..MaxValues}
    \cup {Case(rows, "Histogram", Fields(v, None, None, None), <<>>) :
             rows \in {MixedRows, ApartRows}, v \in {"amount", "price"}}
    \cup {Case(rows, "Scatter", Fields(v, s, None, None), <<>>) :
             rows \in {MixedRows, ApartRows, HistRows(2)},
             v \in {"amount", "price"}, s \in {"amount", "price"}}
    \cup {Case(DailyRows(n), t, Fields(v, None, None, "Date"), <<>>) :
             n \in {3, DailyBucketLimit, DailyBucketLimit + 1}, t \in {"Line", "Bar"},
             v \in {None, "Revenue"}}
    \cup {Case(CategoryRows(n), t, Fields(v, None, "Region", d), <<>>) :
             n \in {3, CategoryLimit, CategoryLimit + 1, CategoryLimit + 2},
             t \in {"Bar", "Pie", "Doughnut", "Line"}, v \in {None, "Revenue"},
             d \in {None, "Date"}}
    \cup {Case(FilterRows, "Bar", Fields("Revenue", None, "Region", None), filters) :
             filters \in FilterLists}
    \cup {Case(SalesRows.items, t, f, <<>>) : t \in ChartTypes, f \in FieldChoices}

\* build_chart_response is called on a dataset and an interpretation
BuilderInit ==
    /\ engine \in Engines
    /\ \E c \in BuilderCases :
          /\ dataset = c.rows
          /\ interp = c.interp
          /\ fields = c.interp.fields
    /\ payload = Null
    /\ today = Clocks[1]
    /\ pc = "interpreted"
    /\ query = None
    /\ columns = NotRun
    /\ built = NotRun
    /\ response = NotRun
    /\ run = 0
    /\ firstOut = NotRun
    /\ uploaded_df = NoneVal
    /\ cleaned_data = NoneVal

BuilderSpec == BuilderInit /\ [][BuildChart]_vars

BuilderDone == pc = "done" /\ built # NotRun

\* what an operator says of two values, given whether the first is below or
\* equal to the second
Holds(operator, below, equal) ==
    CASE operator = "=" -> equal
      [] operator = "!=" -> ~equal
      [] operator = ">" -> ~below /\ ~equal
      [] operator = "<" -> below
      [] operator = ">=" -> ~below
      [] operator = "<=" -> below \/ equal

Coercible(cell) == _safe_float(cell) # NoneVal

\* the cell is there and can be compared with the filter's value
Comparable(row, flt) ==
    /\ HasKey(row, flt.column)
    /\ Get(row, flt.column) # Null
    /\ flt.value.k = "num" => Coercible(Get(row, flt.column))

FilterHolds(row, flt) ==
    /\ Comparable(row, flt)
    /\ LET cell == Get(row, flt.column)
       IN IF flt.value.k = "num"
          THEN Holds(flt.operator, _safe_float(cell).v < flt.value.v,
                     _safe_float(cell).v = flt.value.v)
          ELSE IF cell.k = "str"
               THEN Holds(flt.operator, StrLT(strip(cell.s), flt.value.s),
                          strip(cell.s) = flt.value.s)
               ELSE flt.operator = "!="

AllFiltersHold(row) == \A i \in 1..Len(interp.filters) : FilterHolds(row, interp.filters[i])

\* C13: the rows handed to aggregation are exactly the rows of the dataset, in
\* their order, on which every filter holds, and a row whose filtered cell is
\* missing, null or (against a number) not a number is never among them,
\* whatever the operator
C13_FilteredRowsAreThoseThatHold ==
    (BuilderDone /\ built.k = "tuple") =>
        /\ built.filtered_dataset = SelectSeq(dataset, AllFiltersHold)
        /\ \A i \in 1..Len(built.filtered_dataset) : \A j \in 1..Len(interp.filters) :
              Comparable(built.filtered_dataset[i], interp.filters[j])

\* a "!=" filter has dropped a row with a null cell and kept others
C13_UnequalDropsNullCell ==
    /\ BuilderDone /\ built.k = "tuple"
    /\ Len(interp.filters) = 1 /\ interp.filters[1].operator = "!="
    /\ \E i \in 1..Len(dataset) :
          /\ HasKey(dataset[i], interp.filters[1].column)
          /\ Get(dataset[i], interp.filters[1].column) = Null
          /\ \A j \in 1..Len(built.filtered_dataset) : built.filtered_dataset[j] # dataset[i]
    /\ Len(built.filtered_dataset) \in 1..(Len(dataset) - 1)

HistogramBuilt ==
    /\ BuilderDone /\ HasChart
    /\ Falsy(fields.category) /\ Falsy(fields.time) /\ Truthy(fields.value)
    /\ ~(interp.chart_type = "Scatter" /\ Truthy(fields.secondary_value))

\* the values of the value field that are numbers, in hundredths
CoercibleValues ==
    SelectSeq([i \in 1..Len(built.filtered_dataset) |->
                 _safe_float(Get(built.filtered_dataset[i], fields.value))],
              LAMBDA cell : cell # NoneVal)

\* round(sqrt(n)): the r with (r - 1/2)^2 <= n < (r + 1/2)^2, that is
\* 4 r^2 - 4 r + 1 <= 4 n < 4 r^2 + 4 r + 1
RoundedRoot(n) == CHOOSE r \in 0..n : 4 * r * r - 4 * r + 1 <= 4 * n /\ 4 * n < 4 * r * r + 4 * r + 1

Clamp(x, lo, hi) == IF x < lo THEN lo ELSE IF x > hi THEN hi ELSE x

Spread(cells) == \E i, j \in 1..Len(cells) : cells[i] # cells[j]

\* C14: a histogram over N numbers that are not all equal has
\* clamp(round(sqrt(N)), 3, 10) bins
C14_BinsAreRoundedRoot ==
    (HistogramBuilt /\ Spread(CoercibleValues)) =>
        Len(built.chart_data.labels)
            = Clamp(RoundedRoot(Len(CoercibleValues)), HistogramMinBins, HistogramMaxBins)

Frequencies == built.chart_data.datasets[1].data

\* C15: the frequencies of a histogram add up to the number of rows whose
\* value is a number (frequencies are held in hundredths); the largest value
\* is counted in the last bin, and equal values make a single bin
C15_FrequenciesCoverCoercibleRows ==
    HistogramBuilt =>
        /\ Len(Frequencies) = Len(built.chart_data.labels)
        /\ RangeSum(Frequencies, 1, Len(Frequencies)) = 100 * Len(CoercibleValues)
        /\ \A i \in 1..Len(Frequencies) : Frequencies[i] >= 0
        /\ Frequencies[Len(Frequencies)] >= 100
        /\ ~Spread(CoercibleValues) => Len(Frequencies) = 1

\* a histogram of several bins over rows some of which hold no number
C15_HistogramSkipsRows ==
    /\ HistogramBuilt
    /\ Spread(CoercibleValues)
    /\ Len(Frequencies) >= HistogramMinBins
    /\ Len(CoercibleValues) \in 2..(Len(built.filtered_dataset) - 1)

ScatterAsked ==
    /\ BuilderDone /\ built.k = "tuple"
    /\ interp.chart_type = "Scatter"
    /\ Truthy(fields.value) /\ Truthy(fields.secondary_value)
    /\ built.filtered_dataset # <<>>

BothNumbers(row) ==
    /\ Coercible(Get(row, fields.value))
    /\ Coercible(Get(row, fields.secondary_value))

UsableRows == SelectSeq(built.filtered_dataset, BothNumbers)

\* C16: a Scatter chart holds one point per filtered row in which both fields
\* are numbers, in the order of the rows, and there is no chart but a message
\* exactly when no row is such
C16_PointsAreRowsWithBothNumbers ==
    ScatterAsked =>
        /\ (built.chart_data = NoneVal) <=> (UsableRows = <<>>)
        /\ built.chart_data = NoneVal => built.explanation # ""
        /\ built.chart_data # NoneVal =>
              built.chart_data.datasets[1].data
                 = [i \in 1..Len(UsableRows) |->
                      [x |-> _safe_float(Get(UsableRows[i], fields.value)).v,
                       y |-> _safe_float(Get(UsableRows[i], fields.secondary_value)).v]]

\* a Scatter chart over rows some of which lack one of the two numbers
C16_ScatterSkipsRows ==
    /\ ScatterAsked /\ HasChart
    /\ fields.value # fields.secondary_value
    /\ Len(built.chart_data.datasets[1].data) \in 1..(Len(built.filtered_dataset) - 1)

\* no row holds both numbers: no chart
C16_ScatterWithoutPoints ==
    ScatterAsked /\ ~HasChart /\ UsableRows = <<>>

Meta == built.chart_data.meta

\* C17: no chart over time, Line or Bar, has daily buckets and more than 60
\* labels
C17_DailyBucketsAreCoarsened ==
    (BuilderDone /\ HasChart /\ Truthy(fields.time)
       /\ "timeGranularity" \in DOMAIN Meta /\ Meta["timeGranularity"] = "date")
    => Len(built.chart_data.labels) <= DailyBucketLimit

CategoryChartBuilt ==
    /\ BuilderDone /\ HasChart
    /\ Truthy(fields.category)
    /\ ~(interp.chart_type = "Line" /\ Truthy(fields.time))
    /\ ~(interp.chart_type = "Scatter" /\ Truthy(fields.value)
           /\ Truthy(fields.secondary_value))

\* every category of the filtered rows with its sum (or its row count), in the
\* order of first appearance
CategoryTotals == category_sums(built.filtered_dataset, fields)

KeptCategories ==
    {i \in 1..Len(CategoryTotals) :
        Str(CategoryTotals[i].key) \in SeqToSet(built.chart_data.labels)}

\* C18: a category chart keeps min(10, number of categories) categories and
\* no other label; a kept category has a total larger in magnitude than any
\* dropped one, or the same magnitude and an earlier first appearance; the
\* value charted for a category is its total
C18_KeepsLargestByMagnitude ==
    CategoryChartBuilt =>
        /\ Len(built.chart_data.labels) = MinOf(Len(CategoryTotals), CategoryLimit)
        /\ Cardinality(KeptCategories) = Len(built.chart_data.labels)
        /\ \A i \in KeptCategories : \A j \in (1..Len(CategoryTotals)) \ KeptCategories :
              \/ Abs(CategoryTotals[i].val) > Abs(CategoryTotals[j].val)
              \/ Abs(CategoryTotals[i].val) = Abs(CategoryTotals[j].val) /\ i < j
        /\ \A p \in 1..Len(built.chart_data.labels) :
              \E i \in KeptCategories :
                 /\ Str(CategoryTotals[i].key) = built.chart_data.labels[p]
                 /\ built.chart_data.datasets[1].data[p] = CategoryTotals[i].val

\* the labels of the chart are buckets of the time column
TimeChartBuilt ==
    /\ BuilderDone /\ HasChart /\ Truthy(fields.time)
    /\ ~(interp.chart_type = "Scatter" /\ Truthy(fields.value)
           /\ Truthy(fields.secondary_value))
    /\ interp.chart_type = "Line" \/ Falsy(fields.category)

\* C19: every chart carries axis labels, the legend and whether the labels are
\* sorted, whatever its type, and a chart over time carries the granularity
\* of its buckets
C19_MandatoryMetadata ==
    /\ (BuilderDone /\ HasChart) =>
          {"axisLabels", "legend", "sortedLabels"} \subseteq DOMAIN Meta
    /\ TimeChartBuilt => "timeGranularity" \in DOMAIN Meta

\* the chart type asks for a field that is not resolved
RequiredFieldMissing ==
    \/ interp.chart_type = "Scatter" /\ Falsy(fields.secondary_value)
    \/ interp.chart_type = "Line" /\ Falsy(fields.time)
    \/ interp.chart_type \in {"Pie", "Doughnut"} /\ Falsy(fields.category)

\* C20: with a required field missing and rows left after filtering, the
\* builder returns a chart, and the chart is reported as Bar
C20_FallsBackToBar ==
    (BuilderDone /\ RequiredFieldMissing
       /\ (built.k = "tuple" => built.filtered_dataset # <<>>))
    => /\ built.k = "tuple"
       /\ HasChart
       /\ Meta["chartType"] = "Bar"

(***************************************************************************)
(* interpret_nl_query on a query and a dataset of its own.                 *)
(***************************************************************************)
Dollars(n) == S("$" \o DigitsOf(n) \o ".50")

SalesTable ==
    [i \in 1..4 |-> Row(<<<<"Date", S(DayText(i))>>, <<"Sales", Dollars(10 * i)>>>>)] \o <<>>

ProfitTable ==
    [i \in 1..4 |-> Row(<<<<"Date", S(DayText(i))>>, <<"Sales", Dollars(10 * i)>>,
                          <<"Profit", Dollars(i)>>>>)] \o <<>>

InterpDatasets ==
    {CategoryRows(n) : n \in {5, PieMaxCardinality, PieMaxCardinality + 1, 15}}
    \cup {SalesTable, ProfitTable}

InterpQueries ==
    {"break down revenue by region as a pie",
     "share of revenue by region",
     "percentage of revenue by region",
     "pie chart of revenue by region",
     "revenue breakdown by region as a doughnut",
     "show sales trend over time",
     "show revenue trend over time",
     "monthly revenue",
     "revenue timeline",
     "daily totals",
     "weekly sales",
     "sales by year",
     "bar chart of sales over time",
     "bar chart of sales trend",
     "monthly revenue as a pie",
     "daily distribution of sales",
     "sales and profit trend",
     "revenue against target over time",
     "Value: Region; monthly",
     "Chart: Bar; Value: Sales; Time: Date; monthly"}

InterpInit ==
    /\ engine \in Engines
    /\ query \in InterpQueries
    /\ dataset \in InterpDatasets
    /\ payload = Null
    /\ today = Clocks[1]
    /\ pc = "extracted"
    /\ columns = NotRun
    /\ fields = NotRun
    /\ interp = NotRun
    /\ built = NotRun
    /\ response = NotRun
    /\ run = 0
    /\ firstOut = NotRun
    /\ uploaded_df = NoneVal
    /\ cleaned_data = NoneVal

InterpNext ==
    \/ AnalyseColumns
    \/ AssignFields
    \/ ApplyTrendRules
    \/ ResolveConflicts
    \/ ChooseScatterAxes
    \/ ReturnInterpretation

InterpSpec == InterpInit /\ [][InterpNext]_vars

InterpretationReturned == pc = "interpreted" /\ interp # NotRun

HasColumnOfType(type) == \E i \in 1..Len(columns) : columns[i].type = type

TrendLanguage == ContainsAny(lower(query), TimeKeywords)

GroupingPhrase == \E i \in 1..Len(GroupingPatterns) : Contains(lower(query), GroupingPatterns[i])

DimensionDirective == _parse_directives(query).dimension # <<>>

\* the query words its chart as something other than a line
OtherChartWording == _detect_explicit_chart_type(query) \notin {None, "Line"}

\* a word that groups: the grouping phrases and those of the trend rule
GroupingWord ==
    \/ GroupingPhrase
    \/ ContainsAny(lower(query), TrendGroupingKeywords)

\* the one numeric column, or a numeric column that the query scores
ValueResolvable ==
    \/ Len(CandidatesOf(columns, "numeric")) = 1
    \/ \E i \in 1..Len(columns) :
          /\ columns[i].type = "numeric"
          /\ RatLT(MinFieldScore, Score(engine, query, columns[i].name))

\* a free-text trend query whose chart type and value field are settled by
\* the rules of field assignment: no directive, no wording of another chart
\* type, a numeric column that is the only one or is scored by the query
PlainTrendQuery ==
    /\ InterpretationReturned /\ TrendLanguage
    /\ ~Contains(query, ":") /\ ~OtherChartWording /\ ValueResolvable
    /\ HasColumnOfType("temporal") /\ HasColumnOfType("numeric")

LineOverTime ==
    /\ interp.chart_type = "Line"
    /\ Truthy(interp.fields.time) /\ TypeOf(columns, interp.fields.time) = "temporal"
    /\ Truthy(interp.fields.value) /\ TypeOf(columns, interp.fields.value) = "numeric"
    /\ Falsy(interp.fields.category)

\* C12: a trend query without a grouping phrase (" by ", " per ",
\* " grouped by ", " versus ", " vs ") over columns with a temporal and a
\* numeric one gives a Line chart with a temporal time field, a numeric
\* value field and no category
C12_TrendGivesLine ==
    (PlainTrendQuery /\ ~GroupingPhrase) => LineOverTime

\* the same holds once the words of the trend rule (" against " among them)
\* count as grouping
TrendGivesLineWithoutGroupingWord ==
    (PlainTrendQuery /\ ~GroupingWord) => LineOverTime

\* C11: the chart type returned is not Pie or Doughnut when the category
\* column has more than 8 distinct values
C11_NoPieAboveEightCategories ==
    (InterpretationReturned /\ Truthy(interp.fields.category)
       /\ category_cardinality(interp.fields, columns) > PieMaxCardinality)
    => interp.chart_type \notin {"Pie", "Doughnut"}

(***************************************************************************)
(* extract_dataset on payloads of every JSON shape.                        *)
(***************************************************************************)
B(b) == [k |-> "bool", b |-> b]

North == SalesRows.items[1]

South == SalesRows.items[2]

\* values that hold records
RecordValues ==
    {L(<<North>>), L(<<North, South>>),
     S("[{\"Region\": \"North\", \"Revenue\": \"$120\"}]"),
     D(<<KV("0", North), KV("1", South)>>)}

\* values that hold none
EmptyValues ==
    {Null, I(0), I(7), B(TRUE), S(""), S("abc"), S("[]"), S("[1, 2]"), L(<<>>),
     L(<<North, I(1)>>), L(<<S("North"), South>>), L(<<L(<<North>>)>>), D(<<>>),
     D(<<KV("0", North), KV("1", I(1))>>)}

AllWrapperKeys == <<"data_preview">> \o WrapperKeys

Wrapped(key, v) == D(<<KV(key, v)>>)

DatasetValues ==
    RecordValues \cup EmptyValues
    \cup {Wrapped(AllWrapperKeys[i], v) :
             i \in 1..Len(AllWrapperKeys), v \in RecordValues \cup {Null, L(<<>>), I(7)}}
    \cup {D(<<KV(AllWrapperKeys[i], e), KV(AllWrapperKeys[j], L(<<South>>))>>) :
             i \in 1..Len(AllWrapperKeys), j \in 1..Len(AllWrapperKeys),
             e \in {L(<<>>), S("abc"), L(<<North>>)}}
    \cup {Wrapped("data", Wrapped("rows", v)) : v \in {L(<<North>>), L(<<I(1)>>)}}
    \cup {D(<<KV("other", L(<<North>>))>>), D(<<KV("rows", L(<<>>)), KV("0", North)>>)}

ExtractInit ==
    /\ engine \in Engines
    /\ payload \in {Request("revenue by region", v) : v \in DatasetValues}
    /\ today = Clocks[1]
    /\ pc = "received"
    /\ query = None
    /\ dataset = NotRun
    /\ columns = NotRun
    /\ fields = NotRun
    /\ interp = NotRun
    /\ built = NotRun
    /\ response = NotRun
    /\ run = 0
    /\ firstOut = NotRun
    /\ uploaded_df = NoneVal
    /\ cleaned_data = NoneVal

ExtractNext ==
    \/ HandleRequest
    \/ ExtractDataset

ExtractSpec == ExtractInit /\ [][ExtractNext]_vars

DatasetExtracted == pc \in {"extracted", "done"}

DatasetPayload == Get(payload, "dataset")

Yields(obj, key) == HasKey(obj, key) /\ extract_dataset(engine, Get(obj, key)) # <<>>

YieldingKeys(obj) == {i \in 1..Len(AllWrapperKeys) : Yields(obj, AllWrapperKeys[i])}

\* C22: from a mapping, the records are those of the first wrapper key, in
\* the order data_preview, cleanedData, uploadedData, rows, data, preview,
\* whose value yields records; a key whose value yields none is passed over;
\* when no key yields records the values of the mapping are the records if
\* all of them are records
C22_FirstYieldingWrapperKey ==
    (DatasetExtracted /\ DatasetPayload.k = "dict") =>
        dataset = IF YieldingKeys(DatasetPayload) # {}
                  THEN extract_dataset(engine,
                           Get(DatasetPayload,
                               AllWrapperKeys[SetMin(YieldingKeys(DatasetPayload))]))
                  ELSE IF DictValues(DatasetPayload) # <<>>
                          /\ AllDicts(DictValues(DatasetPayload))
                       THEN DictValues(DatasetPayload)
                       ELSE <<>>

(***************************************************************************)
(* Column scoring and column resolution of nlp_engine, on queries that     *)
(* name columns by phrase, by token and by near spelling.                  *)
(***************************************************************************)
PriceTable ==
    [i \in 1..2 |-> Row(<<<<"Unit_Price", Dollars(i)>>,
                          <<"Net Total Revenue", Dollars(10 * i)>>,
                          <<"Region", S(CategoryName(i))>>>>)] \o <<>>

RevenueTable ==
    [i \in 1..2 |-> Row(<<<<"Revenue Net Of Tax", Dollars(i)>>,
                          <<"Net Revenues", Dollars(10 * i)>>,
                          <<"Region", S(CategoryName(i))>>>>)] \o <<>>

\* records with different keys, a year column among them
RaggedTable ==
    <<Row(<<<<"Year", I(2021)>>, <<"Region", S("zoneA")>>>>),
      Row(<<<<"Revenue", Dollars(3)>>, <<"Year", I(2022)>>, <<"Region", S("zoneB")>>>>),
      Row(<<<<"Region", S("zoneC")>>, <<"Units", I(400000)>>, <<"Revenue", S("n/a")>>>>)>>

ScoreDatasets == {PriceTable, RevenueTable, RaggedTable, SalesRows.items}

ScoreQueries ==
    {"unit price net revenue total net revenue total",
     "unit price net revenue total",
     "net total revenue by region",
     "\"Region\" net total net total net total",
     "revenue",
     "revenues nets totals",
     "regions",
     "show unit_price",
     "Dimension: region",
     "Dimension: net revenue",
     "Dimension: net revenues",
     "Dimension: revenue",
     "Dimension: regions",
     "Dimension: 'Region'",
     "Value: total; Dimension: unit",
     "Value: qqq; Dimension: zzz"}

ScoreInit ==
    /\ engine = "nlp_engine"
    /\ query \in ScoreQueries
    /\ dataset \in ScoreDatasets
    /\ payload = Null
    /\ today = Clocks[1]
    /\ pc = "extracted"
    /\ columns = NotRun
    /\ fields = NotRun
    /\ interp = NotRun
    /\ built = NotRun
    /\ response = NotRun
    /\ run = 0
    /\ firstOut = NotRun
    /\ uploaded_df = NoneVal
    /\ cleaned_data = NoneVal

ScoreNext ==
    \/ AnalyseColumns
    \/ AssignFields

ScoreSpec == ScoreInit /\ [][ScoreNext]_vars

ColumnsScored == pc = "assigned"

\* the rank of the strongest evidence a column was scored on
ClassRank(detail) ==
    LET rank(reason) == CASE reason = "quoted" -> 7 [] reason = "phrase" -> 6
                          [] reason = "name" -> 5 [] reason = "verbatim" -> 4
                          [] reason = "token" -> 3 [] reason = "fuzzy" -> 2
                          [] reason = "partial" -> 1 [] OTHER -> 0
    IN IF detail.reasons = <<>> THEN 0
       ELSE SetMax({rank(detail.reasons[i]) : i \in 1..Len(detail.reasons)})

Outscored(details) ==
    {<<a, b>> \in (DOMAIN details) \X (DOMAIN details) :
        /\ ClassRank(details[a]) > ClassRank(details[b])
        /\ ~RatLT(details[b].score, details[a].score)}

\* C23: when the strongest evidence for column A is of a higher class than the
\* strongest evidence for column B (quoted > phrase > name > verbatim > token
\* > fuzzy > partial), A's score is strictly greater than B's.
C23_HigherClassScoresHigher ==
    ColumnsScored => Outscored(_score_columns(query, columns)) = {}

\* the label of the "Dimension:" directive of the query, as _resolve_column
\* compares it
DimensionLabel ==
    LET d == _parse_directives(query)
    IN IF d.dimension = <<>> THEN None
       ELSE _normalize(strip_chars(d.dimension[1], {"'", "\""}))

\* the first column of the dataset among those a measure ranks highest
FirstAmongBest(cols, hits, Measure(_)) ==
    cols[SetMin({i \in hits : \A j \in hits : RatLE(Measure(j), Measure(i))})].name

\* the column the stages name for a label: an exact name, else the best token
\* overlap, else the best fuzzy ratio
StagedChoice(label, cols) ==
    LET exact == {i \in 1..Len(cols) : _normalize(cols[i].name) = label}
        overlap(i) == token_overlap_ratio(label, cols[i].name)
        likeness(i) == fuzzy_ratio(label, cols[i].name)
        overlapping == {i \in 1..Len(cols) : RatLT(RatInt(0), overlap(i))}
        alike == {i \in 1..Len(cols) : RatLT(RatInt(0), likeness(i))}
    IN IF label = "" THEN None
       ELSE IF exact # {} THEN cols[SetMin(exact)].name
       ELSE IF overlapping # {} THEN FirstAmongBest(cols, overlapping, overlap)
       ELSE IF alike # {} THEN FirstAmongBest(cols, alike, likeness)
       ELSE None

\* C26: a column label resolves by stages in order: exact normalized name,
\* then best token-overlap ratio, then best fuzzy ratio; a later stage counts
\* only when the earlier ones found nothing, and ties go to the first column
\* in dataset order.  The resolved column seeds the category field.
C26_ResolvesByStage ==
    (ColumnsScored /\ DimensionLabel # None) =>
        /\ ResolveColumn(engine, _parse_directives(query).dimension[1], columns)
             = StagedChoice(DimensionLabel, columns)
        /\ StagedChoice(DimensionLabel, columns) # None
             => fields.category = StagedChoice(DimensionLabel, columns)

\* a label two columns overlap equally and a later column resembles more
C26_TokenTieBeatsFuzzy ==
    /\ ColumnsScored
    /\ query = "Dimension: net revenue"
    /\ Names(columns) = <<"Revenue Net Of Tax", "Net Revenues", "Region">>
    /\ token_overlap_ratio(DimensionLabel, "Revenue Net Of Tax")
         = token_overlap_ratio(DimensionLabel, "Net Revenues")
    /\ RatLT(fuzzy_ratio(DimensionLabel, "Revenue Net Of Tax"),
             fuzzy_ratio(DimensionLabel, "Net Revenues"))
    /\ fields.category = "Revenue Net Of Tax"

ColumnsAnalysed == pc \in {"analysed", "assigned"} /\ columns # NotRun

KeysOf(rows) ==
    UNION {{rows[i].items[j].key : j \in 1..Len(rows[i].items)} : i \in 1..Len(rows)}

\* a key is met before another: in an earlier record, or earlier in the same one
MetBefore(rows, a, b) ==
    LET at(key) == FirstSeen(rows, key)
    IN at(a)[1] < at(b)[1] \/ (at(a)[1] = at(b)[1] /\ at(a)[2] < at(b)[2])

AtLeastThreshold(r) == r[1] * 10 >= 6 * r[2]

\* C24: a column is temporal exactly when its temporalScore is at least 0.6,
\* numeric exactly when its numericRatio is at least 0.6 and its temporalScore
\* is below 0.6, categorical when both are below; there is one descriptor per
\* key of the union of the records' keys, in first-seen order.
C24_TypesByThresholdInKeyOrder ==
    ColumnsAnalysed =>
        /\ SeqToSet(Names(columns)) = KeysOf(dataset)
        /\ Len(columns) = Cardinality(KeysOf(dataset))
        /\ \A i, j \in 1..Len(columns) :
              i < j => MetBefore(dataset, columns[i].name, columns[j].name)
        /\ \A i \in 1..Len(columns) :
              /\ columns[i].temporalScore
                   = _temporal_score(columns[i].name,
                                     ColumnValues(dataset, columns[i].name), today)
              /\ columns[i].numericRatio
                   = _numeric_ratio(ColumnValues(dataset, columns[i].name))
              /\ (columns[i].type = "temporal") <=> AtLeastThreshold(columns[i].temporalScore)
              /\ (columns[i].type = "numeric")
                   <=> (/\ AtLeastThreshold(columns[i].numericRatio)
                        /\ ~AtLeastThreshold(columns[i].temporalScore))
              /\ (columns[i].type = "categorical")
                   <=> (/\ ~AtLeastThreshold(columns[i].numericRatio)
                        /\ ~AtLeastThreshold(columns[i].temporalScore))

\* a year column passes both tests and is temporal; a key of a later record
\* follows the keys of the first
C24_YearColumnIsTemporal ==
    /\ ColumnsAnalysed
    /\ Names(columns) = <<"Year", "Region", "Revenue", "Units">>
    /\ \E i \in 1..Len(columns) :
          /\ AtLeastThreshold(columns[i].numericRatio)
          /\ AtLeastThreshold(columns[i].temporalScore)
          /\ columns[i].type = "temporal"

(***************************************************************************)
(* Two callers of the nlp_engine package run the pipeline on one dataset   *)
(* object, their steps interleaved.  dataset is the list they share,       *)
(* payload the object as it was handed to them; query, pc, columns,        *)
(* fields, interp and built hold the locals of each caller.                *)
(***************************************************************************)
Callers == {1, 2}

SharedQueries ==
    {"revenue by region",
     "revenue by region; Filter: Region = North",
     "Chart: Bar; Value: Revenue; Dimension: Region; Filter: Revenue > 50",
     "show revenue trend over time"}

SharedDatasets == {SalesRows, RegionRows}

SharedInit ==
    /\ engine = "nlp_engine"
    /\ payload \in SharedDatasets
    /\ dataset = extract_dataset(engine, payload)
    /\ query \in [Callers -> SharedQueries]
    /\ today = Clocks[1]
    /\ pc = [c \in Callers |-> "extracted"]
    /\ columns = [c \in Callers |-> NotRun]
    /\ fields = [c \in Callers |-> NotRun]
    /\ interp = [c \in Callers |-> NotRun]
    /\ built = [c \in Callers |-> NotRun]
    /\ response = NotRun
    /\ run = 0
    /\ firstOut = NotRun
    /\ uploaded_df = NoneVal
    /\ cleaned_data = NoneVal

\* analyse_columns(dataset), by one caller
SharedAnalyse(c) ==
    /\ pc[c] = "extracted"
    /\ columns' = [columns EXCEPT ![c] = analyse_columns(dataset, today)]
    /\ pc' = [pc EXCEPT ![c] = "analysed"]
    /\ UNCHANGED <<engine, query, payload, today, dataset, fields, interp, built, response,
                   run, firstOut, uploaded_df, cleaned_data>>

\* interpret_nl_query(query, columns), by one caller
SharedInterpret(c) ==
    /\ pc[c] = "analysed"
    /\ interp' = [interp EXCEPT ![c] = interpretation(engine, query[c], columns[c])]
    /\ fields' = [fields EXCEPT ![c] = interp'[c].fields]
    /\ pc' = [pc EXCEPT ![c] = "interpreted"]
    /\ UNCHANGED <<engine, query, payload, today, dataset, columns, built, response, run,
                   firstOut, uploaded_df, cleaned_data>>

\* build_chart_response(dataset, interpretation), by one caller
SharedBuild(c) ==
    /\ pc[c] = "interpreted"
    /\ built' = [built EXCEPT ![c] = build_chart_response(engine, dataset, interp[c], today)]
    /\ dataset' = input_after_filters(dataset, _apply_filters(dataset, interp[c].filters))
    /\ pc' = [pc EXCEPT ![c] = "done"]
    /\ UNCHANGED <<engine, query, payload, today, columns, fields, interp, response, run,
                   firstOut, uploaded_df, cleaned_data>>

SharedNext ==
    \/ \E c \in Callers : SharedAnalyse(c)
    \/ \E c \in Callers : SharedInterpret(c)
    \/ \E c \in Callers : SharedBuild(c)

SharedSpec == SharedInit /\ [][SharedNext]_vars

\* what a caller alone gets from the object handed over
SequentialColumns == analyse_columns(extract_dataset(engine, payload), today)

SequentialInterpretation(c) == interpretation(engine, query[c], SequentialColumns)

SequentialResult(c) ==
    build_chart_response(engine, extract_dataset(engine, payload),
                         SequentialInterpretation(c), today)

TimePool ==
    <<Row(<<<<"Date", S("2024-01-05")>>, <<"Revenue", I(10)>>>>),
      Row(<<<<"Date", S("2024-01-20")>>, <<"Revenue", S("$3.50")>>>>),
      Row(<<<<"Date", S("Jan 2024")>>, <<"Revenue", I(7)>>>>),
      Row(<<<<"Date", S("2023")>>, <<"Revenue", I(4)>>>>),
      Row(<<<<"Date", S("soon")>>, <<"Revenue", I(5)>>>>),
      Row(<<<<"Date", S("2024-02-01")>>, <<"Revenue", S("n/a")>>>>),
      Row(<<<<"Date", S("21")>>, <<"Revenue", I(1)>>>>),
      Row(<<<<"Date", S("12")>>, <<"Revenue", I(2)>>>>)>>

\* two or three rows of the pool, in every order
TimeTables ==
    {<<TimePool[i], TimePool[j]>> : i, j \in 1..Len(TimePool)}
    \cup {<<TimePool[i], TimePool[j], TimePool[k]>> : i, j, k \in 1..Len(TimePool)}

TimeCases ==
    {Case(rows, t, Fields(v, None, None, "Date"), <<>>) :
        rows \in {r \in TimeTables : \A i, j \in 1..Len(r) : i # j => r[i] # r[j]},
        t \in {"Line", "Bar"}, v \in {None, "Revenue"}}

TimeInit ==
    /\ engine \in Engines
    /\ \E c \in TimeCases :
          /\ dataset = c.rows
          /\ interp = c.interp
          /\ fields = c.interp.fields
    /\ payload = Null
    /\ today = Clocks[1]
    /\ pc = "interpreted"
    /\ query = None
    /\ columns = NotRun
    /\ built = NotRun
    /\ response = NotRun
    /\ run = 0
    /\ firstOut = NotRun
    /\ uploaded_df = NoneVal
    /\ cleaned_data = NoneVal

TimeSpec == TimeInit /\ [][BuildChart]_vars

\* the level a time cell is classified as, None for no level
Classification(v) ==
    IF engine = "aichat"
    THEN LET c == aichat_classify_temporal_value(v, today)
         IN IF c = NoneVal THEN None ELSE c.cls
    ELSE _classify_temporal_value(v)

TimeCells == ColumnValues(dataset, fields.time)

Tally(level) == Cardinality({i \in 1..Len(TimeCells) : Classification(TimeCells[i]) = level})

\* the levels from the coarsest to the finest; the first among the most counted
MostCounted ==
    GranularityLevels[SetMin({n \in 1..4 :
        \A m \in 1..4 : Tally(GranularityLevels[m]) <= Tally(GranularityLevels[n])})]

SomeLevelCounted == \E n \in 1..4 : Tally(GranularityLevels[n]) > 0

\* C27: the granularity inferred for a time column is the level among year,
\* quarter, month and date that most of its values classify as, the coarser
\* level on a tie; values that classify as nothing have no say.
C27_MostCountedLevelWins ==
    (BuilderDone /\ SomeLevelCounted) =>
        infer_granularity(engine, dataset, fields.time, today) = MostCounted

\* the granularity the buckets of the chart were cut at
UsedGranularity ==
    IF "timeGranularity" \in DOMAIN Meta THEN Meta["timeGranularity"]
    ELSE IfNone(infer_granularity(engine, dataset, fields.time, today), "date")

\* the date a time cell stands for; the cell classifies as some level
TimeOf(v) ==
    IF engine = "aichat"
    THEN aichat_ensure_datetime_from_info(aichat_classify_temporal_value(v, today))
    ELSE _parse_date_safe(v)

\* the bucket of a date: year, (year, quarter), (year, month) or day
BucketOf(dt, granularity) ==
    CASE granularity = "year" -> <<dt.y>>
      [] granularity = "quarter" -> <<dt.y, ((dt.m - 1) \div 3) + 1>>
      [] granularity = "month" -> <<dt.y, dt.m>>
      [] OTHER -> <<dt.y, dt.m, dt.d>>

\* the rows whose time cell classifies as some level
ClassifiedRows == {i \in 1..Len(dataset) : Classification(TimeCells[i]) # None}

RowBucket(i) == BucketOf(TimeOf(TimeCells[i]), UsedGranularity)

\* the label the builder files a row under
RowLabel(i) == time_entry(engine, TimeCells[i], UsedGranularity, today).label

ChartLabels == built.chart_data.labels

RowAmount(row) ==
    IF Falsy(fields.value) THEN 100
    ELSE IF Coercible(Get(row, fields.value)) THEN _safe_float(Get(row, fields.value)).v
    ELSE 0

\* the filtered rows with a classifiable time cell that the builder files
\* under a label
RowsOfLabel(label) ==
    {i \in 1..Len(built.filtered_dataset) :
        /\ Classification(Get(built.filtered_dataset[i], fields.time)) # None
        /\ time_entry(engine, Get(built.filtered_dataset[i], fields.time),
                      UsedGranularity, today).label = label}

LabelTotal(label) ==
    RangeSum([i \in 1..Len(built.filtered_dataset) |->
                 IF i \in RowsOfLabel(label) THEN RowAmount(built.filtered_dataset[i]) ELSE 0],
             1, Len(built.filtered_dataset))

ClassifiedTotal ==
    RangeSum([i \in 1..Len(built.filtered_dataset) |->
                 IF Classification(Get(built.filtered_dataset[i], fields.time)) # None
                 THEN RowAmount(built.filtered_dataset[i]) ELSE 0],
             1, Len(built.filtered_dataset))

ChartData == built.chart_data.datasets[1].data

\* C29: in a chart over time without category the value of a label is the
\* sum of the value cells that hold a number (the number of rows when no
\* value field is resolved) over the filtered rows whose time cell maps to
\* the label; a row whose time cell classifies as nothing adds to no label,
\* so the values total the sum over the rows with a classifiable time cell.
C29_LabelValueIsSumOfItsRows ==
    (TimeChartBuilt /\ Falsy(fields.category)) =>
        /\ Len(built.chart_data.datasets) = 1
        /\ Len(ChartData) = Len(ChartLabels)
        /\ \A i \in 1..Len(ChartLabels) : ChartData[i] = LabelTotal(ChartLabels[i])
        /\ RangeSum(ChartData, 1, Len(ChartData)) = ClassifiedTotal

(***************************************************************************)
(* The routes over the process-wide state of global_state.py: upload,      *)
(* cleaning, bypass_cleaning and export.  A frame is the rows pandas makes *)
(* of a file; run counts the requests served.                              *)
(***************************************************************************)
Frame(rows) == [k |-> "frame", rows |-> rows]

\* what the reader raises on a file it cannot parse
Unreadable == [k |-> "raise", error |-> "ParserError"]

File(filename, content) == [filename |-> filename, content |-> content]

GapRows ==
    <<Row(<<<<"Region", S("North")>>, <<"Revenue", I(120)>>>>),
      Row(<<<<"Region", Null>>, <<"Revenue", I(80)>>>>),
      Row(<<<<"Region", S("South")>>, <<"Revenue", Null>>>>)>>

\* records with an array in a cell
NestedRows ==
    <<Row(<<<<"Region", S("North")>>, <<"Tags", L(<<S("a"), S("b")>>)>>>>),
      Row(<<<<"Region", S("South")>>, <<"Tags", L(<<S("c")>>)>>>>)>>

\* pd.json_normalize(geojson_obj['features']) of one Point feature
FeatureRows ==
    <<Row(<<<<"type", S("Feature")>>, <<"geometry.type", S("Point")>>,
            <<"geometry.coordinates", L(<<I(4), I(52)>>)>>,
            <<"properties.name", S("Depot")>>>>)>>

UploadFiles ==
    {File("sales.csv", Frame(SalesRows.items)),
     File("gaps.xlsx", Frame(GapRows)),
     File("nested.json", Frame(NestedRows)),
     File("map.geojson", Frame(FeatureRows)),
     File("broken.csv", Unreadable),
     File("notes.txt", Frame(GapRows)),
     File("", Frame(GapRows))}

\* request.files of an upload: a file part, or none
UploadRequests ==
    {[route |-> "/api/upload", files |-> <<f>>] : f \in UploadFiles}
    \cup {[route |-> "/api/upload", files |-> <<>>]}

\* request.json of a cleaning request; Null stands for a body that is no JSON
CleaningBodies ==
    {Null,
     L(<<S("remove_nulls")>>),
     D(<<KV("task", S("remove_nulls"))>>),
     D(<<KV("task", S("fill_nulls")), KV("fill_value", I(0))>>),
     D(<<KV("task", S("fill_nulls"))>>),
     D(<<KV("task", S("fill_nulls")), KV("fill_value", L(<<I(0)>>))>>),
     D(<<KV("task", S("standardize"))>>),
     D(<<KV("task", S("sort"))>>),
     D(<<>>)}

CleaningRequests == {[route |-> "/api/cleaning", json |-> b] : b \in CleaningBodies}

ExportFormats == {"csv", "excel", "pdf", "xml"}

ExportRequests == {[route |-> "/api/export", format |-> f] : f \in ExportFormats}

MaxRequests == 3

\* str.endswith
endswith(s, suffix) ==
    Len(s) >= Len(suffix) /\ SubSeq(s, Len(s) - Len(suffix) + 1, Len(s)) = suffix

Answer(status, text) == [status |-> status, text |-> text]

\* what a handler leaves: its response and the two stored values
Stored(resp, uploaded, cleaned) ==
    [response |-> resp, uploaded_df |-> uploaded, cleaned_data |-> cleaned]

\* x.value_counts() hashes the cells of a column: a list or a dict raises
\* TypeError
Unhashable(frame) ==
    \E i \in 1..Len(frame.rows) : \E j \in 1..Len(frame.rows[i].items) :
        frame.rows[i].items[j].val.k \in {"list", "dict"}

\* upload_file from set_uploaded_df on: the frame is stored, then summarised
store_and_summarise(filename, df, cleaned) ==
    IF Unhashable(df)
    THEN Stored(Answer(500, "Failed to process the file: unhashable type"), df, cleaned)
    ELSE Stored(Answer(200, "File '" \o filename \o "' uploaded successfully!"), df, cleaned)

\* upload_file, the try block
load_file(file, uploaded, cleaned) ==
    IF \E ext \in {".csv", ".xls", ".xlsx", ".json", ".geojson"} :
           endswith(file.filename, ext)
    THEN IF file.content.k = "raise"
         THEN Stored(Answer(500, "Failed to process the file: " \o file.content.error),
                      uploaded, cleaned)
         ELSE store_and_summarise(file.filename, file.content, cleaned)
    ELSE Stored(Answer(400, "Unsupported file type"), uploaded, cleaned)

\* POST /api/upload
upload_file(request, uploaded, cleaned) ==
    IF request.files = <<>> THEN Stored(Answer(400, "No file part"), uploaded, cleaned)
    ELSE IF request.files[1].filename = ""
    THEN Stored(Answer(400, "No selected file"), uploaded, cleaned)
    ELSE load_file(request.files[1], uploaded, cleaned)

MapCells(frame, F(_)) ==
    Frame([i \in 1..Len(frame.rows) |->
              D([j \in 1..Len(frame.rows[i].items) |->
                    KV(frame.rows[i].items[j].key, F(frame.rows[i].items[j].val))])])

\* DataFrame.dropna()
dropna(frame) ==
    Frame(SelectSeq(frame.rows,
                    LAMBDA row : \A j \in 1..Len(row.items) : row.items[j].val # Null))

\* DataFrame.fillna(value), value a scalar
fillna(frame, value) == MapCells(frame, LAMBDA cell : IF cell = Null THEN value ELSE cell)

\* DataFrame.applymap(lambda x: x.lower() if isinstance(x, str) else x)
standardize(frame) ==
    MapCells(frame, LAMBDA cell : IF cell.k = "str" THEN S(lower(cell.s)) ELSE cell)

\* get_clean from set_cleaned_data on
store_cleaned(uploaded, cleaned_df) ==
    Stored(Answer(200, "Cleaning task completed successfully"), uploaded, cleaned_df)

\* get_clean, the try block with a JSON object as body
clean_task(data, uploaded, cleaned) ==
    LET task == row_get(data, "task", S(""))
        fill_value == row_get(data, "fill_value", S(""))
    IN CASE task = S("remove_nulls") -> store_cleaned(uploaded, dropna(uploaded))
         [] task = S("fill_nulls") ->
              IF fill_value.k = "list"
              THEN Stored(Answer(500, "Failed to clean data: TypeError"), uploaded, cleaned)
              ELSE store_cleaned(uploaded, fillna(uploaded, fill_value))
         [] task = S("standardize") -> store_cleaned(uploaded, standardize(uploaded))
         [] OTHER -> Stored(Answer(400, "Invalid cleaning task"), uploaded, cleaned)

\* POST /api/cleaning; a body that is no JSON object raises inside the try
get_clean(request, uploaded, cleaned) ==
    IF uploaded = NoneVal
    THEN Stored(Answer(400, "No file has been uploaded yet"), uploaded, cleaned)
    ELSE IF request.json.k # "dict"
    THEN Stored(Answer(500, "Failed to clean data"), uploaded, cleaned)
    ELSE clean_task(request.json, uploaded, cleaned)

\* POST /api/bypass_cleaning
bypass_cleaning(uploaded, cleaned) ==
    IF uploaded = NoneVal
    THEN Stored(Answer(400, "No file has been uploaded yet"), uploaded, cleaned)
    ELSE Stored(Answer(200, "Bypassed cleaning. Data is considered cleaned as is."),
                 uploaded, uploaded)

\* GET /api/export
export_cleaned_data(request, uploaded, cleaned) ==
    IF cleaned = NoneVal
    THEN Stored(Answer(400, "No cleaned data available to export"), uploaded, cleaned)
    ELSE IF request.format \in {"csv", "excel", "pdf"}
    THEN Stored(Answer(200, "cleaned_data." \o request.format), uploaded, cleaned)
    ELSE Stored(Answer(400, "Unsupported export format"), uploaded, cleaned)

StoreInit ==
    /\ engine = "aichat"
    /\ payload = Null
    /\ today = Clocks[1]
    /\ pc = "idle"
    /\ query = None
    /\ dataset = NotRun
    /\ columns = NotRun
    /\ fields = NotRun
    /\ interp = NotRun
    /\ built = NotRun
    /\ response = NotRun
    /\ run = 0
    /\ firstOut = NotRun
    /\ uploaded_df = NoneVal
    /\ cleaned_data = NoneVal

\* a request is served: payload is the request, response its answer
Served(request, out) ==
    /\ run < MaxRequests
    /\ payload' = request
    /\ response' = out.response
    /\ uploaded_df' = out.uploaded_df
    /\ cleaned_data' = out.cleaned_data
    /\ run' = run + 1
    /\ UNCHANGED <<engine, query, today, pc, dataset, columns, fields, interp, built,
                   firstOut>>

UploadFile ==
    \E request \in UploadRequests :
        Served(request, upload_file(request, uploaded_df, cleaned_data))

GetClean ==
    \E request \in CleaningRequests :
        Served(request, get_clean(request, uploaded_df, cleaned_data))

BypassCleaning ==
    Served([route |-> "/api/bypass_cleaning"], bypass_cleaning(uploaded_df, cleaned_data))

ExportCleanedData ==
    \E request \in ExportRequests :
        Served(request, export_cleaned_data(request, uploaded_df, cleaned_data))

StoreNext ==
    \/ UploadFile
    \/ GetClean
    \/ BypassCleaning
    \/ ExportCleanedData

StoreSpec == StoreInit /\ [][StoreNext]_vars

\* the step serves a request to /api/upload or /api/cleaning with an error
FailedStoreRequest ==
    /\ run' = run + 1
    /\ payload'.route \in {"/api/upload", "/api/cleaning"}
    /\ response'.status \in {400, 500}

\* C30: a request to /api/upload or /api/cleaning that is answered 400 or 500
\* leaves uploaded_df and cleaned_data as they were before the request.
C30_FailedRequestLeavesStore ==
    [][FailedStoreRequest => (uploaded_df' = uploaded_df /\ cleaned_data' = cleaned_data)]_vars

=============================================================================
